---- MODULE Spec2Model ----
(***************************************************************************)
(* Model of the Sim-Engine kernel (src/simengine/core.py): the process     *)
(* life cycle (ProcessState / Process and its variants), the process       *)
(* keeper, the bilateral interaction dispatch of ProcessInteractiveUnit    *)
(* and the World / UnitHandler pipeline.                                   *)
(*                                                                         *)
(* The specifications share the definitions below:                         *)
(*   SpecProcess      one process updated directly (Process.update)        *)
(*   SpecKeeper       one ProcessKeeper and the processes it is given      *)
(*   SpecInteraction  the units and the interaction calls made on them     *)
(*   SpecRelations    the units under the relation passes of the pipeline  *)
(*   SpecMotion       one movable unit and its moving process              *)
(*   SpecParts        units that hold units as parts                       *)
(*   Spec             a World, its units, their keepers and its handlers   *)
(***************************************************************************)
EXTENDS Integers, Sequences, FiniteSets, TLC

\* ------------------------------------------------------------------ bounds
\* largest _ticks_of_inactivity / ticks_to_activate tried
MaxTicks == 3
\* largest _passes tried
MaxPasses == 3
\* number of update() calls made on the directly updated process
MaxUpdates == 7
\* number of process objects given to keepers
NProcs == 2
\* number of activate_processes() calls made on the keeper under test
MaxCalls == 3
\* number of units
NUnits == 3
\* largest coordinate of a vector to the next position
MaxStep == 3
\* largest speed_limit
MaxLimit == 2
\* number of move() calls made on the movable unit
MaxMoves == 3
\* number of parts the units hold together
MaxParts == 4
\* largest number of bilateral process factories a unit class is given
MaxFactories == 2

\* ------------------------------------------------------------ state space
VARIABLES
    process,    \* SpecProcess: the process object that is updated directly
    perr,       \* SpecProcess: the error raised by the last call ("none")
    pop,        \* SpecProcess: the last call made on the process
    proc,       \* the process objects given to keepers, by identity
    keeper,     \* each process keeper's _processes and __completed_processes
    kop,        \* SpecKeeper: the last call made on the keeper
    kerr,       \* SpecKeeper: the error raised by that call ("none")
    kcalls,     \* SpecKeeper: the number of activate_processes() calls made
    factories,  \* _bilateral_process_factories of the interactive unit class
    cache,      \* each unit's __cashed_factories_for_object
    mark,       \* each unit's own state, which a factory's support may read
    iop,        \* SpecInteraction: the last call made
    iargs,      \* SpecInteraction: its arguments (self, unit)
    ibatch,     \* SpecInteraction: the units given to the relations activator
    ires,       \* SpecInteraction: the sign of the report it returned
    ierr,       \* SpecInteraction: the error it raised ("none")
    itested,    \* SpecInteraction: the is_support_participants calls it made
    ilooked,    \* SpecInteraction: the factory lookups it made, in order
    inhabitants,      \* World.__inhabitant
    handlerFactories, \* World._unit_handler_factories, as supplied
    handlers,         \* World._unit_handlers
    wlog,       \* Spec: the handler calls of the last World.update()
    werr,       \* Spec: the error the last World.update() raised ("none")
    wop,        \* Spec: the last call made on the world
    mover,      \* SpecMotion: the movable unit and its moving process
    mop,        \* SpecMotion: the last call made on the movable unit
    merr,       \* SpecMotion: the error raised by that call ("none")
    graph,      \* SpecParts: the parts each unit holds
    dop,        \* SpecParts: the last call made
    darg,       \* SpecParts: the unit whose deep_parts was asked
    dres,       \* SpecParts: what deep_parts returned or raised
    wkeeper,    \* the WorldProcessesActivator's own _processes and
                \* __completed_processes
    wevents,    \* SpecActivator: what the last call did, in order
    interactive, \* SpecPass: the units whose class is an InteractiveUnit
    icalled,    \* SpecPass: the interact_with calls of the last pass, as
                \* (self, unit), in order
    warg,       \* SpecInhabitants: the objects the last call was given
    turns,      \* SpecUpdateLoop: the turns made by the loop that ends the
                \* running update()
    threaded    \* SpecThreadedLoop: the loop's _is_working, the positions
                \* of its thread and of the caller, the _handle() calls

procVars == <<process, perr, pop>>

keeperVars == <<proc, keeper, kop, kerr, kcalls>>

interVars == <<factories, cache, mark, iop, iargs, ibatch, ires, ierr, itested,
               ilooked>>

worldVars == <<inhabitants, handlerFactories, handlers, wlog, werr, wop>>

unitVars == <<mover, mop, merr, graph, dop, darg, dres>>

activatorVars == <<wkeeper, wevents>>

passVars == <<interactive, icalled, warg, turns, threaded>>

vars == <<process, perr, pop, proc, keeper, kop, kerr, kcalls,
          factories, cache, mark, iop, iargs, ibatch, ires, ierr, itested,
          ilooked,
          inhabitants, handlerFactories, handlers, wlog, werr, wop,
          mover, mop, merr, graph, dop, darg, dres,
          wkeeper, wevents, interactive, icalled, warg, turns, threaded>>

\* The identities of the process objects and of the units (every keeper here
\* is a unit).
Procs == 1..NProcs

Units == 1..NUnits

\* The names of the errors the kernel raises.
NoError == "none"

\* ----------------------------------------------------------- ProcessState
\* The state classes: "None" is Process.state = None (not started).
StateNames == {"None", "Active", "Sleep", "Completed", "Flag"}

\* ProcessState.is_valid of the process's current state.  A Sleep state is
\* valid while ticks_to_activate > 0; a Flag state is valid when _is_standing
\* (the class attribute, False: create_flag_state stores its is_standing
\* argument as the attribute is_standing and nothing sets _is_standing);
\* Active and Completed are always valid.
IsValid(p) ==
    CASE p.st = "Sleep" -> p.ticks > 0
      [] p.st = "Flag"  -> FALSE
      [] OTHER          -> TRUE

\* is_compelling_to_handle of each state class.
IsCompellingToHandle(st) ==
    st \in {"Active", "Flag"}

\* StateUpdate with a CompletedProcessState._handle that does not raise.
StateUpdateSilentCompleted(p) ==
    CASE p.st = "Sleep" /\ ~IsValid(p) ->
            [p |-> p, err |-> "ProcessIsNoLongerSleepingError"]
      [] p.st = "Sleep" /\ IsValid(p) ->
            [p |-> [p EXCEPT !.ticks = p.ticks - 1], err |-> NoError]
      [] OTHER -> [p |-> p, err |-> NoError]

\* <state>.update(): FlagProcessState.update does nothing; ProcessState.update
\* raises the report's error when the state is not valid and otherwise runs the
\* state's _handle: Sleep counts down by tick (1), Completed raises, Active
\* does nothing.  Returns the process and the error raised.
StateUpdate(p) ==
    CASE p.st = "Flag" -> [p |-> p, err |-> NoError]
      [] p.st = "Sleep" /\ ~IsValid(p) ->
            [p |-> p, err |-> "ProcessIsNoLongerSleepingError"]
      [] p.st = "Sleep" /\ IsValid(p) ->
            [p |-> [p EXCEPT !.ticks = p.ticks - 1], err |-> NoError]
      [] p.st = "Completed" ->
            [p |-> p, err |-> "ProcessAlreadyCompletedError"]
      [] OTHER -> [p |-> p, err |-> NoError]

\* <state>.get_next_state(): Active and Completed return None; Sleep and Flag
\* (NewStateByValidationProcessStateMixin) return a new Active state if the
\* state is valid and None otherwise.  "None" stands for Python's None.
StateGetNextState(p) ==
    IF p.st \in {"Sleep", "Flag"}
    THEN (IF IsValid(p) THEN "Active" ELSE "None")
    ELSE "None"

\* ---------------------------------------------------------------- Process
\* Process kinds: a plain Process subclass, a ManyPassProcess and a
\* DelayedProcess.  rearm says whether the subclass's _handle() calls
\* activate_delay().
ProcessKinds == {"Plain", "ManyPass", "Delayed"}

\* A process object as constructed (state = None, no participants).  k, handled, ups, sn, su,
\* serr and pure are history: the _passes it was made with, the number of
\* _handle() runs and of update() calls, the Sleep state being followed (its
\* n, the updates made on it and whether one of them raised) and whether the
\* state was only ever set by the process itself.  declared is the
\* is_standing argument the class of a Flag state was created with.
NewProcess(kind, passes, n, rearm) ==
    [kind |-> kind, passes |-> passes, k |-> passes, n |-> n, rearm |-> rearm,
     st |-> "None", ticks |-> 0, parts |-> <<>>,
     handled |-> 0, ups |-> 0, sn |-> 0, su |-> 0, serr |-> FALSE,
     pure |-> TRUE, declared |-> FALSE]

\* DelayedProcess.activate_delay: state = SleepProcessState(self, n).
ActivateDelay(p) ==
    [p EXCEPT !.st = "Sleep", !.ticks = p.n, !.sn = p.n, !.su = 0,
              !.serr = FALSE]

\* start(): Process.start sets an Active state, DelayedProcess.start calls
\* activate_delay.
Start(p) ==
    IF p.kind = "Delayed"
    THEN ActivateDelay(p)
    ELSE [p EXCEPT !.st = "Active", !.ticks = 0]

\* The subclass's _handle(): counted, and for a re-arming DelayedProcess it
\* calls activate_delay().
Handle(p) ==
    LET q == [p EXCEPT !.handled = p.handled + 1]
    IN  IF p.kind = "Delayed" /\ p.rearm THEN ActivateDelay(q) ELSE q

\* ProcessGetNextState completing only once _passes < 0.
ProcessGetNextStateLate(p) ==
    IF p.kind = "ManyPass" /\ p.passes < 0 THEN "Completed" ELSE "None"

\* Process._get_next_state: None, but for ManyPassProcess a Completed state
\* once _passes <= 0.
ProcessGetNextState(p) ==
    IF p.kind = "ManyPass" /\ p.passes <= 0 THEN "Completed" ELSE "None"

\* Process.__reset_state: the state's next state, else the process's own; a
\* next state replaces the current one.  replaced says that self.state is a
\* new object.
ResetState(p) ==
    LET fromState == StateGetNextState(p)
        next == IF fromState = "None" THEN ProcessGetNextState(p) ELSE fromState
    IN  IF next = "None"
        THEN [p |-> p, replaced |-> FALSE]
        ELSE [p |-> [p EXCEPT !.st = next, !.ticks = 0], replaced |-> TRUE]

\* HashEqual with every state class hashed as SleepProcessState is, by the id
\* of the instance.
HashEqualByInstance(old, new, replaced) ==
    ~replaced

\* hash(old_state) == hash(self.state): ProcessState.__hash__ is the id of
\* the class, SleepProcessState.__hash__ the id of the instance.
HashEqual(old, new, replaced) ==
    IF old.st = "Sleep" \/ new.st = "Sleep"
    THEN ~replaced
    ELSE old.st = new.st

\* The loop that ends Process.update.
RECURSIVE ResetLoop(_)
ResetLoop(p) ==
    LET r == ResetState(p)
    IN  IF HashEqual(p, r.p, r.replaced) THEN r.p ELSE ResetLoop(r.p)

\* ManyPassProcess.update counts a pass down before Process.update.
CountPass(p) ==
    IF p.kind = "ManyPass" THEN [p EXCEPT !.passes = p.passes - 1] ELSE p

\* update() with _handle() run before the state is updated: a state whose
\* update raises no longer keeps _handle() from running.
ProcessUpdateHandlingFirst(p0) ==
    LET p1 == [CountPass(p0) EXCEPT !.ups = p0.ups + 1]
        p2 == IF p1.st = "None" THEN Start(p1) ELSE p1
        p3 == Handle(p2)
        s  == StateUpdate(p3)
    IN  IF s.err # NoError
        THEN [p |-> s.p, err |-> s.err]
        ELSE [p |-> ResetLoop(s.p), err |-> NoError]

\* update() with the reset of the state made before the test of
\* is_compelling_to_handle: _handle() runs for the state the process ends in.
ProcessUpdateHandlingLast(p0) ==
    LET p1 == [CountPass(p0) EXCEPT !.ups = p0.ups + 1]
        p2 == IF p1.st = "None" THEN Start(p1) ELSE p1
        onSleep == p2.st = "Sleep"
        s  == StateUpdate(p2)
        p3 == IF onSleep
              THEN [s.p EXCEPT !.su = s.p.su + 1,
                               !.serr = s.p.serr \/ s.err # NoError]
              ELSE s.p
    IN  IF s.err # NoError
        THEN [p |-> p3, err |-> s.err]
        ELSE LET p4 == ResetLoop(p3)
             IN  [p |-> IF IsCompellingToHandle(p4.st) THEN Handle(p4) ELSE p4,
                  err |-> NoError]

\* update(): start if there is no state, update the state, run _handle() if
\* the state is compelling, then reset the state until its hash settles.
\* Returns the process and the error raised ("none": the call returned).
ProcessUpdate(p0) ==
    LET p1 == [CountPass(p0) EXCEPT !.ups = p0.ups + 1]
        p2 == IF p1.st = "None" THEN Start(p1) ELSE p1
        onSleep == p2.st = "Sleep"
        s  == StateUpdate(p2)
        p3 == IF onSleep
              THEN [s.p EXCEPT !.su = s.p.su + 1,
                               !.serr = s.p.serr \/ s.err # NoError]
              ELSE s.p
    IN  IF s.err # NoError
        THEN [p |-> p3, err |-> s.err]
        ELSE LET p4 == IF IsCompellingToHandle(p3.st) THEN Handle(p3) ELSE p3
             IN  [p |-> ResetLoop(p4), err |-> NoError]

\* update() up to the loop that ends it: start if there is no state, update
\* the state, run _handle() if the state is compelling.  Returns the process
\* and the error raised ("none": the loop is entered).
ProcessUpdateToLoop(p0) ==
    LET p1 == [CountPass(p0) EXCEPT !.ups = p0.ups + 1]
        p2 == IF p1.st = "None" THEN Start(p1) ELSE p1
        onSleep == p2.st = "Sleep"
        s  == StateUpdate(p2)
        p3 == IF onSleep
              THEN [s.p EXCEPT !.su = s.p.su + 1,
                               !.serr = s.p.serr \/ s.err # NoError]
              ELSE s.p
    IN  IF s.err # NoError
        THEN [p |-> p3, err |-> s.err]
        ELSE [p |-> IF IsCompellingToHandle(p3.st) THEN Handle(p3) ELSE p3,
              err |-> NoError]

\* One turn of the loop that ends update(): old_state = self.state, the
\* state is reset, and the loop is left if the hashes of the two are equal.
ResetLoopTurn(p) ==
    LET r == ResetState(p)
    IN  [p |-> r.p, left |-> HashEqual(p, r.p, r.replaced)]

\* ---------------------------------------------------------- ProcessKeeper
\* A new ProcessKeeper: ProcessKeeper.__init__.
NewKeeper == [processes |-> {}, completed |-> <<>>]

\* The orders in which a set can be iterated.
Orders(S) ==
    {f \in [1..Cardinality(S) -> S] : \A i, j \in DOMAIN f : f[i] = f[j] => i = j}

\* The elements of a sequence.
Range(f) == {f[i] : i \in DOMAIN f}

\* The numbers of a set as a tuple, in the order of their numbers.
RECURSIVE InTurn(_)
InTurn(S) ==
    IF S = {}
    THEN <<>>
    ELSE LET u == CHOOSE x \in S : \A y \in S : x <= y
         IN  <<u>> \o InTurn(S \ {u})

\* The body of activate_processes' loop with the Completed test made after
\* the update instead of before it.
ActivateOneTestAfter(p, acc) ==
    LET r == IF acc.proc[p].st = "Completed"
             THEN [p |-> acc.proc[p], err |-> NoError]
             ELSE ProcessUpdate(acc.proc[p])
    IN  IF r.p.st = "Completed" /\ r.err = NoError
        THEN [acc EXCEPT !.keeper.completed = Append(@, p), !.proc[p] = r.p]
        ELSE [acc EXCEPT !.keeper.processes = @ \cup {p}, !.proc[p] = r.p,
                         !.err = r.err]

\* The body of activate_processes' loop with the re-insertion made before
\* the test: an archived process is also kept in _processes.
ActivateOneKeepingArchived(p, acc) ==
    IF acc.proc[p].st = "Completed"
    THEN [acc EXCEPT !.keeper.processes = @ \cup {p},
                     !.keeper.completed = Append(@, p)]
    ELSE LET r == ProcessUpdate(acc.proc[p])
         IN  [acc EXCEPT !.keeper.processes = @ \cup {p}, !.proc[p] = r.p,
                         !.err = r.err]

\* The body of activate_processes' loop without the re-insertion into
\* _processes.
ActivateOneNotKept(p, acc) ==
    IF acc.proc[p].st = "Completed"
    THEN [acc EXCEPT !.keeper.completed = Append(@, p)]
    ELSE LET r == ProcessUpdate(acc.proc[p])
         IN  [acc EXCEPT !.proc[p] = r.p, !.err = r.err]

\* The body of activate_processes' loop for one process: a process whose
\* state is a CompletedProcessState goes to the completed list, any other is
\* put back in _processes and updated.  acc holds the keeper, the process
\* objects and the error raised.
ActivateOne(p, acc) ==
    IF acc.proc[p].st = "Completed"
    THEN [acc EXCEPT !.keeper.completed = Append(@, p)]
    ELSE LET r == ProcessUpdate(acc.proc[p])
         IN  [acc EXCEPT !.keeper.processes = @ \cup {p}, !.proc[p] = r.p,
                         !.err = r.err]

\* The loop of activate_processes over processes_to_update in iteration
\* order; an error raised by an update ends it.
RECURSIVE ActivateEach(_, _)
ActivateEach(order, acc) ==
    IF order = <<>> \/ acc.err # NoError
    THEN acc
    ELSE ActivateEach(Tail(order), ActivateOne(Head(order), acc))

\* ProcessKeeper.activate_processes: _processes is swapped for an empty set
\* and the processes that were in it are gone through.
ActivateProcesses(kp, procs, order) ==
    ActivateEach(order, [keeper |-> [kp EXCEPT !.processes = {}],
                         proc |-> procs, err |-> NoError])

\* The body of the loop with a process that its _handle adds to the keeper
\* taken into the running loop and updated in the same call.
ActivateOneAddingAtOnce(p, acc, adds) ==
    LET r == ActivateOne(p, [keeper |-> acc.keeper, proc |-> acc.proc,
                             err |-> acc.err])
        q == adds[p]
        u == ProcessUpdate(r.proc[q])
    IN  IF r.proc[p].handled > acc.proc[p].handled /\ q # 0
        THEN [keeper |-> [r.keeper EXCEPT !.processes = @ \cup {q}],
              proc |-> [r.proc EXCEPT ![q] = u.p], err |-> r.err,
              added |-> Append(acc.added, q)]
        ELSE [keeper |-> r.keeper, proc |-> r.proc, err |-> r.err,
              added |-> acc.added]

\* The body of activate_processes' loop for a process whose _handle calls
\* add_process(adds[p]) on the keeper that activates it (adds[p] = 0: it
\* adds none).  The process added goes to the new _processes, not to
\* processes_to_update.  acc.added lists the processes added.
ActivateOneAdding(p, acc, adds) ==
    LET r == ActivateOne(p, [keeper |-> acc.keeper, proc |-> acc.proc,
                             err |-> acc.err])
    IN  IF r.proc[p].handled > acc.proc[p].handled /\ adds[p] # 0
        THEN [keeper |-> [r.keeper EXCEPT !.processes = @ \cup {adds[p]}],
              proc |-> r.proc, err |-> r.err,
              added |-> Append(acc.added, adds[p])]
        ELSE [keeper |-> r.keeper, proc |-> r.proc, err |-> r.err,
              added |-> acc.added]

\* The loop of activate_processes with processes that add to the keeper.
RECURSIVE ActivateEachAdding(_, _, _)
ActivateEachAdding(order, acc, adds) ==
    IF order = <<>> \/ acc.err # NoError
    THEN acc
    ELSE ActivateEachAdding(Tail(order),
                            ActivateOneAdding(Head(order), acc, adds), adds)

\* ProcessKeeper.activate_processes with processes that add to the keeper.
ActivateProcessesAdding(kp, procs, order, adds) ==
    ActivateEachAdding(order, [keeper |-> [kp EXCEPT !.processes = {}],
                               proc |-> procs, err |-> NoError,
                               added |-> <<>>], adds)

\* The body of the loop without the test of the state: every process is put
\* back in _processes and updated.
ActivateOneCompletingUntested(p, acc, ends) ==
    LET r == ProcessUpdate(acc.proc[p])
        q == ends[p]
    IN  IF r.p.handled > acc.proc[p].handled /\ q # 0
        THEN [acc EXCEPT !.keeper.processes = @ \cup {p}, !.proc[p] = r.p,
                         !.proc[q].st = "Completed", !.proc[q].ticks = 0,
                         !.err = r.err]
        ELSE [acc EXCEPT !.keeper.processes = @ \cup {p}, !.proc[p] = r.p,
                         !.err = r.err]

\* The body of activate_processes' loop for a process whose _handle sets the
\* state of another process, ends[p], to CompletedProcessState(ends[p])
\* (ends[p] = 0: it completes none).
ActivateOneCompleting(p, acc, ends) ==
    LET r == ActivateOne(p, acc)
        q == ends[p]
    IN  IF r.proc[p].handled > acc.proc[p].handled /\ q # 0
        THEN [r EXCEPT !.proc[q].st = "Completed", !.proc[q].ticks = 0]
        ELSE r

\* The loop of activate_processes with processes that complete others.
RECURSIVE ActivateEachCompleting(_, _, _)
ActivateEachCompleting(order, acc, ends) ==
    IF order = <<>> \/ acc.err # NoError
    THEN acc
    ELSE ActivateEachCompleting(Tail(order),
                                ActivateOneCompleting(Head(order), acc, ends),
                                ends)

\* activate_processes of a keeper whose processes complete others.
ActivateProcessesCompleting(kp, procs, order, ends) ==
    ActivateEachCompleting(order, [keeper |-> [kp EXCEPT !.processes = {}],
                                   proc |-> procs, err |-> NoError], ends)

\* clear_completed_processes that leaves the completed list as it is.
ClearCompletedProcessesNot(kp) ==
    kp

\* ProcessKeeper.clear_completed_processes
ClearCompletedProcesses(kp) ==
    [kp EXCEPT !.completed = <<>>]

\* ------------------------------------------------------------------ units
\* The classes of the units, in turn: a ProcessInteractiveUnit (an
\* InteractiveUnit and a MultitaskingUnit at once), a unit that is only
\* IUpdatable, a MultitaskingUnit that is not interactive, and again a
\* ProcessInteractiveUnit.
UnitKind(u) ==
    CASE u % 4 \in {0, 1} -> "ProcessInteractive"
      [] u % 4 = 2        -> "Updatable"
      [] OTHER            -> "Multitasking"

\* isinstance(unit, InteractiveUnit)
IsInteractive(u) == UnitKind(u) = "ProcessInteractive"

\* isinstance(unit, ProcessKeeper)
IsProcessKeeper(u) == UnitKind(u) \in {"ProcessInteractive", "Multitasking"}

\* ------------------------------------------ bilateral interaction dispatch
\* The process types a unit class may list in _bilateral_process_factories,
\* named by what their is_support_participants((self, unit)) reports: any
\* partner, a partner that keeps processes, a partner whose own state says so.
FactoryKinds == {"WithAny", "WithKeeper", "WithMarked"}

\* <process type>.is_support_participants((a, b)): the sign of its report.
IsSupportParticipants(f, a, b, marks) ==
    CASE f = "WithAny"    -> TRUE
      [] f = "WithKeeper" -> IsProcessKeeper(b)
      [] OTHER            -> marks[b]

\* The tuples _bilateral_process_factories may be.
FactoryTuples ==
    UNION {[1..n -> FactoryKinds] : n \in 0..MaxFactories}

\* The class attribute __cashed_factories_for_object: a fresh object() that
\* is no unit (0), and an empty tuple.
NewCache == [object_ |-> 0, factories |-> <<>>]

\* The lookup with no use of the cached tuple: every factory is tested on
\* every call.
GetSupportedProcessFactoriesAnew(a, b, c, fs, marks) ==
    LET found == [i \in DOMAIN fs |-> IsSupportParticipants(fs[i], a, b, marks)]
    IN  [factories |-> found,
         cache |-> [object_ |-> b, factories |-> found],
         tested |-> Len(fs)]

\* __get_cachedly_suported_process_factories_for(unit) of unit a with cache c:
\* the cached tuple if unit is the cached object; otherwise the tuple of what
\* is_support_participants((self, unit)) returns for each configured factory,
\* in order (the reports themselves, here their signs), which is cached.
\* tested counts the is_support_participants calls.
GetCachedlySupportedProcessFactoriesFor(a, b, c, fs, marks) ==
    IF b = c.object_
    THEN [factories |-> c.factories, cache |-> c, tested |-> 0]
    ELSE LET found == [i \in DOMAIN fs |-> IsSupportParticipants(fs[i], a, b, marks)]
         IN  [factories |-> found,
              cache |-> [object_ |-> b, factories |-> found],
              tested |-> Len(fs)]

\* The context of a call after the lookup q of unit a for unit b: the cache
\* it left, the tests it made, and the lookup itself with what it returned.
AfterLookup(ctx, a, b, q) ==
    [ctx EXCEPT !.cache[a] = q.cache,
                !.tested = ctx.tested + q.tested,
                !.looked = Append(ctx.looked, [unit |-> a, partner |-> b,
                                               found |-> q.factories])]

\* is_support_interaction_with(unit): Report(bool(<the tuple>), error=...).
\* A tuple is true when it is not empty.  ctx holds the keepers, the process
\* objects, the caches, the error raised, the count of tests and the lookups.
IsSupportInteractionWith(a, b, ctx, fs, marks) ==
    LET q == GetCachedlySupportedProcessFactoriesFor(a, b, ctx.cache[a], fs, marks)
    IN  [sign |-> Len(q.factories) > 0,
         ctx |-> AfterLookup(ctx, a, b, q)]

\* The loop of _handle_interaction_with over the tuple it is given: each
\* element is called as factory(self, unit).  The elements are Report objects,
\* a Report is not callable, so the first call raises TypeError before
\* process.start() and add_process(process) are reached.
RECURSIVE CreateProcesses(_, _, _, _)
CreateProcesses(found, a, b, ctx) ==
    IF found = <<>> \/ ctx.err # NoError
    THEN ctx
    ELSE CreateProcesses(Tail(found), a, b, [ctx EXCEPT !.err = "TypeError"])

\* _handle_interaction_with(unit)
HandleInteractionWith(a, b, ctx, fs, marks) ==
    LET q == GetCachedlySupportedProcessFactoriesFor(a, b, ctx.cache[a], fs, marks)
    IN  CreateProcesses(q.factories, a, b, AfterLookup(ctx, a, b, q))

\* InteractiveUnit.interact_with(unit): the report of
\* is_support_interaction_with goes to the report analyzer, which raises its
\* error (IncorrectUnitInteractionError) when the sign is false; then
\* _handle_interaction_with.
InteractWith(a, b, ctx, fs, marks) ==
    LET r == IsSupportInteractionWith(a, b, ctx, fs, marks)
    IN  IF ~r.sign
        THEN [r.ctx EXCEPT !.err = "IncorrectUnitInteractionError"]
        ELSE HandleInteractionWith(a, b, r.ctx, fs, marks)

\* A sequence without the elements that fail to be in S.
RECURSIVE Among(_, _)
Among(order, S) ==
    IF order = <<>> THEN <<>>
    ELSE IF Head(order) \in S
         THEN <<Head(order)>> \o Among(Tail(order), S)
         ELSE Among(Tail(order), S)

\* The inner loop of UnitRelationsActivator._handle_units: the active unit
\* interacts with each passive unit until an error is raised.
RECURSIVE InteractWithEach(_, _, _, _, _)
InteractWithEach(a, passive, ctx, fs, marks) ==
    IF passive = <<>> \/ ctx.err # NoError
    THEN ctx
    ELSE InteractWithEach(a, Tail(passive),
                          InteractWith(a, Head(passive), ctx, fs, marks), fs, marks)

\* UnitRelationsActivator._handle_units(units): every InteractiveUnit of units
\* interacts with every other unit of units.  active is what is left of the
\* iteration over units, order the order in which a set of units is iterated.
RECURSIVE ActivateRelations(_, _, _, _, _, _)
ActivateRelations(active, units, order, ctx, fs, marks) ==
    IF active = <<>> \/ ctx.err # NoError
    THEN ctx
    ELSE LET a == Head(active)
             passive == Among(order, units \ {a})
         IN  ActivateRelations(Tail(active), units, order,
                 IF IsInteractive(a)
                 THEN InteractWithEach(a, passive, ctx, fs, marks)
                 ELSE ctx,
                 fs, marks)

\* InteractiveUnit.interact_with(unit) as the activator sees it: the call is
\* made and raises UnitRelationError if is_support_interaction_with reports
\* false, which it does for the pairs in raising.  c holds the calls made
\* and the error raised.
InteractWithOf(a, b, c, raising) ==
    [called |-> Append(c.called, <<a, b>>),
     err |-> IF <<a, b>> \in raising THEN "UnitRelationError" ELSE NoError]

\* for passive_unit in passive_units: active_unit.interact_with(passive_unit)
RECURSIVE InteractWithEachOf(_, _, _, _)
InteractWithEachOf(a, passive, c, raising) ==
    IF passive = <<>> \/ c.err # NoError
    THEN c
    ELSE InteractWithEachOf(a, Tail(passive),
                            InteractWithOf(a, Head(passive), c, raising),
                            raising)

\* The inner loop of the pass with the active unit left among the passive
\* ones.
PassOfWithItself(a, units, sorder, c, among, raising) ==
    IF a \in among
    THEN InteractWithEachOf(a, Among(sorder, units), c, raising)
    ELSE c

\* The body of the loop of UnitRelationsActivator._handle_units for the
\* active unit a: a unit that is no InteractiveUnit is passed over, else
\* passive_units is set(units) without a, iterated in the order sorder.
\* among holds the InteractiveUnits.
PassOf(a, units, sorder, c, among, raising) ==
    IF a \in among
    THEN InteractWithEachOf(a, Among(sorder, units \ {a}), c, raising)
    ELSE c

\* UnitRelationsActivator._handle_units(units) over units of any classes:
\* active is what is left of the iteration over units.
RECURSIVE PassOver(_, _, _, _, _, _)
PassOver(active, units, sorder, c, among, raising) ==
    IF active = <<>> \/ c.err # NoError
    THEN c
    ELSE PassOver(Tail(active), units, sorder,
                  PassOf(Head(active), units, sorder, c, among, raising),
                  among, raising)

\* ------------------------------------------------- UnitHandler and World
\* A new context of a call: nothing raised, nothing tested.
NewContext(keepers, procs, caches) ==
    [keeper |-> keepers, proc |-> procs, cache |-> caches,
     err |-> NoError, tested |-> 0, looked |-> <<>>]

\* The unit handler types a world may be given factories of.
HandlerKinds == {"UnitUpdater", "UnitProcessesActivator", "UnitRelationsActivator"}

\* The tuples _unit_handler_factories may be: some of the handler types,
\* each once, in some order.
Pipelines ==
    UNION {Orders(S) : S \in SUBSET HandlerKinds \ {{}}}

\* World.__init__ with the handlers made in the reverse of the order of the
\* factories.
UnitHandlersReversed(fs) ==
    [i \in DOMAIN fs |-> fs[Len(fs) + 1 - i]]

\* World.__init__: _unit_handlers is the tuple of what each factory of
\* _unit_handler_factories makes, in the order of the factories.
UnitHandlers(fs) ==
    [i \in DOMAIN fs |-> fs[i]]

\* World.deep_parts: the inhabitants and the deep parts of those that have
\* deep_parts; the units here have no parts.
DeepParts(inh) == inh

\* is_unit_suitable(unit) of a handler of kind h: UnitHandler's for every
\* IUpdatable, ProcessKeeperHandler's for a ProcessKeeper as well.
IsUnitSuitable(h, u) ==
    IF h \in {"UnitProcessesActivator", "WorldProcessesActivator"}
    THEN IsProcessKeeper(u)
    ELSE TRUE

\* World.update's choice of units with no test of them.
AnyUnits(h, deep) == deep

\* The units World.update chooses for a handler: those of deep_parts for
\* which the handler's is_unit_suitable is true.
SuitableUnits(h, deep) ==
    {u \in deep : IsUnitSuitable(h, u)}

\* FocusedUnitHandler._handle_units of UnitProcessesActivator: each unit's
\* clear_completed_processes() and activate_processes(), until one raises.
RECURSIVE HandleKeepers(_, _, _)
HandleKeepers(units, ctx, porder) ==
    IF units = <<>> \/ ctx.err # NoError
    THEN ctx
    ELSE LET u == Head(units)
             cleared == ClearCompletedProcesses(ctx.keeper[u])
             r == ActivateProcesses(cleared, ctx.proc,
                                    Among(porder, ctx.keeper[u].processes))
         IN  HandleKeepers(Tail(units),
                 [ctx EXCEPT !.keeper[u] = r.keeper, !.proc = r.proc,
                             !.err = r.err],
                 porder)

\* _handle_units(units) of a handler of kind h.  UnitUpdater calls
\* unit.update(), which these units implement by doing nothing.
HandleUnits(h, units, ctx, env) ==
    CASE h = "UnitUpdater" -> ctx
      [] h = "UnitProcessesActivator" -> HandleKeepers(units, ctx, env.porder)
      [] OTHER -> ActivateRelations(units, Range(units), env.order, ctx,
                                    env.factories, env.mark)

\* UnitHandler.__call__(units): the report of is_unit_suitable of every unit
\* goes to the report analyzer, which raises UnsupportedUnitForHandlerError
\* for a false one; then _handle_units(units).
HandlerCall(h, units, ctx, env) ==
    IF \E i \in DOMAIN units : ~IsUnitSuitable(h, units[i])
    THEN [ctx EXCEPT !.err = "UnsupportedUnitForHandlerError"]
    ELSE HandleUnits(h, units, ctx, env)

\* The loop of World.update from handler i on.  w holds the context and the
\* log of the handler calls: which handler, the units of the tuple it was
\* called with, deep_parts at that moment and whether the call returned.
RECURSIVE UpdateFrom(_, _, _, _, _)
UpdateFrom(i, hs, inh, w, env) ==
    IF i > Len(hs) \/ w.ctx.err # NoError
    THEN w
    ELSE LET deep == DeepParts(inh)
             units == Among(env.order, SuitableUnits(hs[i], deep))
             r == HandlerCall(hs[i], units, w.ctx, env)
         IN  UpdateFrom(i + 1, hs, inh,
                 [ctx |-> r,
                  log |-> Append(w.log, [handler |-> i, kind |-> hs[i],
                                         units |-> Range(units), deep |-> deep,
                                         returned |-> r.err = NoError])],
                 env)

\* World.update()
WorldUpdate(hs, inh, ctx, env) ==
    UpdateFrom(1, hs, inh, [ctx |-> ctx, log |-> <<>>], env)

\* -------------------------------------------------------- world processes
\* The WorldProcess classes: UnitSpawnProcess and UnitKillProcess, both
\* FocusedEvent, WorldProcess and ManyPassProcess with _passes = 1.
WorldProcessKinds == {"UnitSpawn", "UnitKill"}

\* The participants an Event may be made with: one or two units, in order.
ParticipantTuples ==
    {<<a>> : a \in Units} \cup {<<a, b>> : a, b \in Units}

\* UnitSpawnProcess(participants) and UnitKillProcess(participants) as
\* constructed: Event.__init__ keeps the participants, world is None.
NewWorldProcess(event, participants) ==
    [NewProcess("ManyPass", 1, 0, FALSE) EXCEPT !.parts = participants]
        @@ [event |-> event, world |-> FALSE]

\* A process that is no WorldProcess, held beside the world processes.
NewUnitProcess ==
    NewProcess("Plain", 0, 0, FALSE) @@ [event |-> "None", world |-> FALSE]

\* A process that is no WorldProcess and whose _handle calls
\* v.add_process(q) for a unit v other than the one that holds the process
\* itself.
NewGivingProcess(v, q) ==
    NewUnitProcess @@ [gives |-> <<v, q>>]

\* isinstance(process, WorldProcess)
IsWorldProcess(q) == q.event \in WorldProcessKinds

\* What the _handle of a process that is no WorldProcess does in a world
\* besides being counted: q0 is the process before the update of process p,
\* r what the update made of it, c the context after it.  While a keeper is
\* activated its unit still lists the processes it is going through.
Given(p, q0, r, c) ==
    IF "gives" \in DOMAIN q0 /\ r.p.handled > q0.handled
       /\ p \notin c.keeper[q0.gives[1]].processes
    THEN [c EXCEPT !.keeper[q0.gives[1]].processes = @ \cup {q0.gives[2]},
                   !.events = Append(@, [op |-> "add_process",
                                         unit |-> q0.gives[1],
                                         proc |-> q0.gives[2]])]
    ELSE c

\* WorldProcess.start with the test of self.world left out.
WorldProcessStartUnchecked(q) ==
    [p |-> Start(q), err |-> NoError]

\* WorldProcess.start: raises WorldProcessError if self.world is not set,
\* else Process.start.
WorldProcessStart(q) ==
    IF ~q.world
    THEN [p |-> q, err |-> "WorldProcessError"]
    ELSE [p |-> Start(q), err |-> NoError]

\* Objects that are no units: the world itself, another world, and an
\* object that is no IUpdatable.
ThisWorld == -1
OtherWorld == -2
Thing == -3

Objects == Units \cup {ThisWorld, OtherWorld, Thing}

\* isinstance(o, World)
IsWorld(o) == o \in {ThisWorld, OtherWorld}

\* isinstance(o, IUpdatable)
IsUpdatable(o) == o \in Units \/ IsWorld(o)

\* is_inhabited_for with Worlds let in.
IsInhabitedForWorldsToo(o) ==
    IsUpdatable(o)

\* World.is_inhabited_for
IsInhabitedFor(o) ==
    IsUpdatable(o) /\ ~IsWorld(o)

\* World.add_inhabitant / World.remove_inhabitant as _handle_participant
\* calls them for participant u.  add_inhabitant raises NotSupportPartError
\* for an object is_inhabited_for refuses; set.remove raises KeyError for an
\* object that is no inhabitant.  w holds the inhabitants, the error and the
\* events.
HandleParticipant(q, u, w) ==
    IF q.event = "UnitSpawn"
    THEN IF ~IsInhabitedFor(u)
         THEN [w EXCEPT !.err = "NotSupportPartError"]
         ELSE [w EXCEPT !.inh = @ \cup {u},
                        !.events = Append(@, [op |-> "add_inhabitant",
                                              unit |-> u, proc |-> 0])]
    ELSE IF u \in w.inh
         THEN [w EXCEPT !.inh = @ \ {u},
                        !.events = Append(@, [op |-> "remove_inhabitant",
                                              unit |-> u, proc |-> 0])]
         ELSE [w EXCEPT !.err = "KeyError"]

\* FocusedEvent._handle: _handle_participant of each participant in the
\* order of the tuple, until one raises.
RECURSIVE HandleParticipants(_, _, _)
HandleParticipants(q, i, w) ==
    IF i > Len(q.parts) \/ w.err # NoError
    THEN w
    ELSE HandleParticipants(q, i + 1, HandleParticipant(q, q.parts[i], w))

\* process.update() of process p in a world.  c holds the inhabitants, the
\* keepers of the units, the process objects, the handler's keeper, the
\* error raised and the events.  A process that is no WorldProcess is
\* updated as any Process; for a world process ManyPassProcess.update counts
\* the pass, then Process.update starts it if it has no state, updates the
\* state, runs _handle if the state is compelling and resets the state.
UpdateWorldProcess(p, c) ==
    LET q0 == c.proc[p]
        c0 == [c EXCEPT !.events = Append(@, [op |-> "update", unit |-> 0,
                                           proc |-> p])]
    IN  IF ~IsWorldProcess(q0)
        THEN LET r == ProcessUpdate(q0)
             IN  Given(p, q0, r, [c0 EXCEPT !.proc[p] = r.p, !.err = r.err])
        ELSE
        LET q1 == [CountPass(q0) EXCEPT !.ups = q0.ups + 1]
            s  == IF q1.st = "None"
                  THEN WorldProcessStart(q1)
                  ELSE [p |-> q1, err |-> NoError]
            t  == StateUpdate(s.p)
            h  == HandleParticipants(t.p, 1, [inh |-> c0.inh, err |-> NoError,
                                              events |-> c0.events])
        IN  CASE s.err # NoError ->
                    [c0 EXCEPT !.proc[p] = s.p, !.err = s.err]
              [] s.err = NoError /\ t.err # NoError ->
                    [c0 EXCEPT !.proc[p] = t.p, !.err = t.err]
              [] s.err = NoError /\ t.err = NoError
                    /\ ~IsCompellingToHandle(t.p.st) ->
                    [c0 EXCEPT !.proc[p] = ResetLoop(t.p)]
              [] s.err = NoError /\ t.err = NoError
                    /\ IsCompellingToHandle(t.p.st) /\ h.err # NoError ->
                    [c0 EXCEPT !.proc[p] = t.p, !.inh = h.inh,
                               !.events = h.events, !.err = h.err]
              [] OTHER ->
                    [c0 EXCEPT !.proc[p] =
                                   ResetLoop([t.p EXCEPT !.handled = @ + 1]),
                               !.inh = h.inh, !.events = h.events]

\* The loop of activate_processes going on to the processes left after an
\* update has raised; the first error is the one raised in the end.
RECURSIVE ActivateEachInWorldPastErrors(_, _)
ActivateEachInWorldPastErrors(order, acc) ==
    IF order = <<>>
    THEN acc
    ELSE LET p == Head(order)
             r == IF acc.ctx.proc[p].st = "Completed"
                  THEN [acc EXCEPT !.keeper.completed = Append(@, p)]
                  ELSE [keeper |-> [acc.keeper EXCEPT !.processes = @ \cup {p}],
                        ctx |-> UpdateWorldProcess(p,
                                    [acc.ctx EXCEPT !.err = NoError])]
         IN  ActivateEachInWorldPastErrors(Tail(order),
                 IF acc.ctx.err # NoError
                 THEN [r EXCEPT !.ctx.err = acc.ctx.err]
                 ELSE r)

\* The loop of activate_processes of a keeper in a world: a process whose
\* state is Completed goes to the completed list, any other is put back in
\* _processes and updated; an error raised by an update ends the loop.  acc
\* holds the keeper and the context.
RECURSIVE ActivateEachInWorld(_, _)
ActivateEachInWorld(order, acc) ==
    IF order = <<>> \/ acc.ctx.err # NoError
    THEN acc
    ELSE LET p == Head(order)
         IN  ActivateEachInWorld(Tail(order),
                 IF acc.ctx.proc[p].st = "Completed"
                 THEN [acc EXCEPT !.keeper.completed = Append(@, p)]
                 ELSE [keeper |-> [acc.keeper EXCEPT !.processes = @ \cup {p}],
                       ctx |-> UpdateWorldProcess(p, acc.ctx)])

\* ProcessKeeper.activate_processes of keeper kp in a world.
ActivateProcessesInWorld(kp, c, porder) ==
    ActivateEachInWorld(Among(porder, kp.processes),
                        [keeper |-> [kp EXCEPT !.processes = {}], ctx |-> c])

\* UnitProcessesActivator._handle_units in a world: each unit's
\* clear_completed_processes() and activate_processes(), until one raises.
RECURSIVE HandleKeepersInWorld(_, _, _)
HandleKeepersInWorld(units, c, porder) ==
    IF units = <<>> \/ c.err # NoError
    THEN c
    ELSE LET u == Head(units)
             r == ActivateProcessesInWorld(ClearCompletedProcesses(c.keeper[u]),
                                           c, porder)
         IN  HandleKeepersInWorld(Tail(units),
                 [r.ctx EXCEPT !.keeper[u] = r.keeper], porder)

\* WorldProcessesActivator.is_support_process
ActivatorIsSupportProcess(q) == IsWorldProcess(q)

\* WorldProcessesActivator.add_process: process.world = self.world, then
\* ProcessKeeper.add_process, which raises UnsupportedProcessError for a
\* process that is not supported and else adds it to _processes.
ActivatorAddProcess(p, c) ==
    LET c1 == [c EXCEPT !.proc[p].world = TRUE,
                        !.events = Append(@, [op |-> "add_process",
                                              unit |-> 0, proc |-> p])]
    IN  IF ~ActivatorIsSupportProcess(c1.proc[p])
        THEN [c1 EXCEPT !.err = "UnsupportedProcessError"]
        ELSE [c1 EXCEPT !.wkeeper.processes = @ \cup {p}]

\* __handle_unit_processes without the test of the class: every process of
\* the unit is removed from it and added to the handler.
RECURSIVE HandleUnitProcessesOfAnyClass(_, _, _)
HandleUnitProcessesOfAnyClass(u, order, c) ==
    IF order = <<>> \/ c.err # NoError
    THEN c
    ELSE HandleUnitProcessesOfAnyClass(u, Tail(order),
             ActivatorAddProcess(Head(order),
                 [c EXCEPT !.keeper[u].processes = @ \ {Head(order)},
                           !.events = Append(@,
                               [op |-> "remove_process",
                                unit |-> u, proc |-> Head(order)])]))

\* WorldProcessesActivator.__handle_unit_processes: every WorldProcess among
\* unit.processes is removed from the unit and added to the handler.
RECURSIVE HandleUnitProcesses(_, _, _)
HandleUnitProcesses(u, order, c) ==
    IF order = <<>>
    THEN c
    ELSE LET p == Head(order)
         IN  HandleUnitProcesses(u, Tail(order),
                 IF IsWorldProcess(c.proc[p])
                 THEN ActivatorAddProcess(p,
                          [c EXCEPT !.keeper[u].processes = @ \ {p},
                                    !.events = Append(@,
                                        [op |-> "remove_process",
                                         unit |-> u, proc |-> p])])
                 ELSE c)

\* WorldProcessesActivator.__parse_world_processes_from
RECURSIVE ParseWorldProcessesFrom(_, _, _)
ParseWorldProcessesFrom(units, c, porder) ==
    IF units = <<>>
    THEN c
    ELSE LET u == Head(units)
         IN  ParseWorldProcessesFrom(Tail(units),
                 HandleUnitProcesses(u, Among(porder, c.keeper[u].processes), c),
                 porder)

\* _handle_units with the handler's processes activated before the units'
\* world processes are taken.
ActivatorHandleUnitsLate(units, c, porder) ==
    LET cleared == [c EXCEPT !.wkeeper = ClearCompletedProcesses(@)]
        r == ActivateProcessesInWorld(cleared.wkeeper, cleared, porder)
        activated == [r.ctx EXCEPT !.wkeeper = r.keeper]
    IN  IF activated.err # NoError
        THEN activated
        ELSE ParseWorldProcessesFrom(units, activated, porder)

\* WorldProcessesActivator._handle_units: clear_completed_processes(), the
\* world processes of the units are taken over, then activate_processes().
ActivatorHandleUnits(units, c, porder) ==
    LET cleared == [c EXCEPT !.wkeeper = ClearCompletedProcesses(@)]
        parsed == ParseWorldProcessesFrom(units, cleared, porder)
        r == ActivateProcessesInWorld(parsed.wkeeper, parsed, porder)
    IN  [r.ctx EXCEPT !.wkeeper = r.keeper]

\* _handle_units(units) of a handler of kind h in a world; UnitUpdater calls
\* unit.update(), which these units implement by doing nothing.
HandleUnitsInWorld(h, units, c, porder) ==
    CASE h = "UnitProcessesActivator" -> HandleKeepersInWorld(units, c, porder)
      [] h = "WorldProcessesActivator" -> ActivatorHandleUnits(units, c, porder)
      [] OTHER -> c

\* The world processes the keepers of units hold, each with its unit.
HeldWorldProcesses(units, c) ==
    {<<u, p>> \in units \X Procs :
        p \in c.keeper[u].processes /\ IsWorldProcess(c.proc[p])}

\* __call__ with each unit tested only when its turn to be handled comes:
\* the units before the first unsuitable one are handled, then the error is
\* raised.
HandlerCallInWorldTestingLate(i, h, units, c, porder) ==
    LET bad == {k \in DOMAIN units : ~IsUnitSuitable(h, units[k])}
        first == IF bad = {} THEN Len(units) + 1
                 ELSE CHOOSE k \in bad : \A j \in bad : k <= j
        done == HandleUnitsInWorld(h, SubSeq(units, 1, first - 1), c, porder)
        r == IF bad # {} /\ done.err = NoError
             THEN [done EXCEPT !.err = "UnsupportedUnitForHandlerError"]
             ELSE done
    IN  [r EXCEPT !.log = Append(@,
            [handler |-> i, kind |-> h, units |-> Range(units),
             held |-> HeldWorldProcesses(Range(units), c),
             left |-> HeldWorldProcesses(Range(units), r),
             kept |-> r.wkeeper.processes \cup Range(r.wkeeper.completed),
             attached |-> {p \in Procs : r.proc[p].world},
             first |-> Len(c.events) + 1, last |-> Len(r.events),
             returned |-> r.err = NoError])]

\* UnitHandler.__call__(units) in a world: UnsupportedUnitForHandlerError
\* for a unit that is not suitable, else _handle_units(units).  The call is
\* logged: the handler, its units, the world processes their keepers held
\* before and hold after, the handler's keeper and the processes with a
\* world after, the events of the call and whether it returned.
HandlerCallInWorld(i, h, units, c, porder) ==
    LET r == IF \E k \in DOMAIN units : ~IsUnitSuitable(h, units[k])
             THEN [c EXCEPT !.err = "UnsupportedUnitForHandlerError"]
             ELSE HandleUnitsInWorld(h, units, c, porder)
    IN  [r EXCEPT !.log = Append(@,
            [handler |-> i, kind |-> h, units |-> Range(units),
             held |-> HeldWorldProcesses(Range(units), c),
             left |-> HeldWorldProcesses(Range(units), r),
             kept |-> r.wkeeper.processes \cup Range(r.wkeeper.completed),
             attached |-> {p \in Procs : r.proc[p].world},
             first |-> Len(c.events) + 1, last |-> Len(r.events),
             returned |-> r.err = NoError])]

\* The loop of World.update with the units of every handler chosen from the
\* deep_parts that the update began with.
RECURSIVE UpdateInWorldOver(_, _, _, _, _, _)
UpdateInWorldOver(i, hs, c, order, porder, deep) ==
    IF i > Len(hs) \/ c.err # NoError
    THEN c
    ELSE UpdateInWorldOver(i + 1, hs,
             HandlerCallInWorld(i, hs[i],
                 Among(order, SuitableUnits(hs[i], deep)), c, porder),
             order, porder, deep)

\* World.update with deep_parts read once, before the first handler.
UpdateInWorldFromFirstParts(i, hs, c, order, porder) ==
    UpdateInWorldOver(i, hs, c, order, porder, DeepParts(c.inh))

\* The loop of World.update from handler i on, with inhabitants that the
\* processes may change: deep_parts is read anew for every handler.
RECURSIVE UpdateInWorldFrom(_, _, _, _, _)
UpdateInWorldFrom(i, hs, c, order, porder) ==
    IF i > Len(hs) \/ c.err # NoError
    THEN c
    ELSE UpdateInWorldFrom(i + 1, hs,
             HandlerCallInWorld(i, hs[i],
                 Among(order, SuitableUnits(hs[i], DeepParts(c.inh))),
                 c, porder),
             order, porder)

\* The state of a world and of its units and processes before a call.
NewWorld(inh, keepers, procs, own) ==
    [inh |-> inh, keeper |-> keepers, proc |-> procs, wkeeper |-> own,
     err |-> NoError, events |-> <<>>, log |-> <<>>]

\* ------------------------------------------------ movable unit and motion
\* Vectors have one coordinate, an integer.
Abs(x) == IF x < 0 THEN -x ELSE x

\* Vector.length
Length(v) == Abs(v)

\* Vector.get_reduced_to_length(length) of a vector that is not zero:
\* (self / self.length) * length.
GetReducedToLength(v, length) ==
    IF v < 0 THEN -length ELSE length

\* A ProcessMovableUnit at position 0 as constructed: previous_position is
\* position, its moving process is an AbruptImpulseProcess (vector Vector(),
\* state None), wrapped in a SpeedLimitedProxyMovingProcess or not.  The
\* other fields tell what was done to it: impulse the vector last set from
\* outside, moved the moves since then, moves all the moves, updated whether
\* the moving process was updated since the last call, ticked whether it was
\* updated between the last move and the one before.
NewUnit(wrapped, limit) ==
    [position |-> 0, previous |-> 0, vector |-> 0,
     wrapped |-> wrapped, limit |-> limit,
     process |-> NewProcess("Plain", 0, 0, FALSE),
     impulse |-> 0, moved |-> 0, moves |-> 0, updated |-> FALSE,
     ticked |-> FALSE]

\* DirectedMovingProcess.next_unit_position
DirectedNextUnitPosition(m) ==
    m.position + m.vector

\* SpeedLimitedProxyMovingProcess.next_unit_position: the vector to the next
\* position is taken from the unit's previous_position.
SpeedLimitedNextUnitPosition(m) ==
    LET vector_to_next_position == DirectedNextUnitPosition(m) - m.previous
    IN  m.position + (IF Length(vector_to_next_position) <= m.limit
                      THEN vector_to_next_position
                      ELSE GetReducedToLength(vector_to_next_position, m.limit))

\* ProcessMovableUnit.next_position
NextPosition(m) ==
    IF m.wrapped THEN SpeedLimitedNextUnitPosition(m)
    ELSE DirectedNextUnitPosition(m)

\* MovableUnit.move: previous_position becomes the position, then the
\* position becomes next_position.
MovableUnitMove(m) ==
    LET started == [m EXCEPT !.previous = m.position]
    IN  [started EXCEPT !.position = NextPosition(started)]

\* ProcessMovableUnit.move: MovableUnit.move, then the moving process is to
\* get the state UnitMovingProcessState(process); that class leaves
\* ProcessState._handle abstract, so making one raises TypeError and the
\* state of the process stays as it was.
ProcessMovableUnitMove(m) ==
    [unit |-> MovableUnitMove(m), err |-> "TypeError"]

\* unit.moving_process.update(): SpeedLimitedProxyMovingProcess.update does
\* nothing; AbruptImpulseProcess's is Process.update, whose _handle changes
\* something only in the state UnitMovingProcessState, which the process
\* never has.
MovingProcessUpdate(m) ==
    IF m.wrapped
    THEN [unit |-> m, err |-> NoError]
    ELSE LET r == ProcessUpdate(m.process)
         IN  [unit |-> [m EXCEPT !.process = r.p], err |-> r.err]

\* ------------------------------------------------------- parts of units
\* The units of a class made with StructuredPartDiscreteMixin (DiscreteUnit);
\* the others are of a class with DeepPartDiscreteMixin and a parts property
\* of its own, as World is.
IsStructured(u) == u % 2 = 0

\* The frames the interpreter allows a recursion; no walk over an acyclic
\* graph of these units gets that deep.
RecursionLimit == NUnits + 1

\* unit.parts with graph g.  StructuredPartDiscreteMixin._get_parts reads the
\* name part_attribute, which is not defined, as soon as the unit has an
\* attribute named in _part_attribute_names: NameError.
Parts(u, g) ==
    IF IsStructured(u) /\ g[u] # {}
    THEN [parts |-> {}, errs |-> {"NameError"}]
    ELSE [parts |-> g[u], errs |-> {}]

\* DeepPartDiscreteMixin.deep_parts of unit u at recursion depth depth: the
\* parts and the deep_parts of each part, with no memory of the units seen.
\* errs holds the errors the walk can raise (which one depends on the order
\* in which the parts are gone through); the walk returns parts if errs is
\* empty.
RECURSIVE DeepPartsFrom(_, _, _)
DeepPartsFrom(u, g, depth) ==
    IF depth > RecursionLimit
    THEN [parts |-> {}, errs |-> {"RecursionError"}]
    ELSE LET own == Parts(u, g)
             deeper == [p \in own.parts |-> DeepPartsFrom(p, g, depth + 1)]
         IN  [parts |-> own.parts \cup UNION {deeper[p].parts : p \in own.parts},
              errs |-> own.errs \cup UNION {deeper[p].errs : p \in own.parts}]

\* What a deep_parts call can come to: the set it returns or an error.
DeepPartsOutcomes(u, g) ==
    LET r == DeepPartsFrom(u, g, 1)
    IN  IF r.errs = {}
        THEN {[parts |-> r.parts, err |-> NoError]}
        ELSE {[parts |-> {}, err |-> e] : e \in r.errs}

\* ------------------------------------------------- what a run leaves alone
\* The process updated directly, as SpecKeeper, SpecInteraction and Spec
\* leave it.
IdleProcess ==
    /\ process = NewProcess("Plain", 0, 0, FALSE)
    /\ perr = NoError
    /\ pop = "new"

\* The keeper calls, as SpecProcess, SpecInteraction and Spec leave them.
IdleKeeperCalls ==
    /\ kop = "new"
    /\ kerr = NoError
    /\ kcalls = 0

\* The keepers and the process objects, as SpecProcess leaves them.
IdleKeepers ==
    /\ proc = [p \in Procs |-> NewProcess("Plain", 0, 0, FALSE)]
    /\ keeper = [u \in Units |-> NewKeeper]
    /\ IdleKeeperCalls

\* The interaction calls, as SpecProcess, SpecKeeper and Spec leave them.
IdleInteractionCalls ==
    /\ iop = "new"
    /\ iargs = <<0, 0>>
    /\ ibatch = {}
    /\ ires = FALSE
    /\ ierr = NoError
    /\ itested = 0
    /\ ilooked = <<>>

\* The interactive units, as SpecProcess and SpecKeeper leave them.
IdleInteraction ==
    /\ factories = <<>>
    /\ cache = [u \in Units |-> NewCache]
    /\ mark = [u \in Units |-> FALSE]
    /\ IdleInteractionCalls

\* The movable unit, as every specification but SpecMotion leaves it.
IdleMover ==
    /\ mover = NewUnit(FALSE, 0)
    /\ mop = "new"
    /\ merr = NoError

\* The parts of the units, as every specification but SpecParts leaves them.
IdleParts ==
    /\ graph = [u \in Units |-> {}]
    /\ dop = "new"
    /\ darg = 0
    /\ dres = [parts |-> {}, err |-> NoError]

\* SeparateThreadedLoop(loop) of a Loop, as constructed: the class attribute
\* _is_working is False, the thread is made and not started, run() has not
\* been called, _handle() has not run.
NewSeparateThreadedLoop ==
    [is_working |-> FALSE, thread |-> "new", caller |-> "new", handled |-> 0]

\* The relations passes and the arguments of the calls on the world, as the
\* specifications other than SpecPass and SpecInhabitants leave them.
IdlePass ==
    /\ interactive = {}
    /\ icalled = <<>>
    /\ warg = <<>>
    /\ turns = 0
    /\ threaded = NewSeparateThreadedLoop

\* The single units, as the other specifications leave them.
IdleUnit ==
    /\ IdleMover
    /\ IdleParts
    /\ IdlePass

\* The handler that activates world processes, as every specification but
\* SpecActivator leaves it.
IdleActivator ==
    /\ wkeeper = NewKeeper
    /\ wevents = <<>>

\* The world, as SpecProcess, SpecKeeper and SpecInteraction leave it.
IdleWorld ==
    /\ IdleActivator
    /\ inhabitants = {}
    /\ handlerFactories = <<>>
    /\ handlers = <<>>
    /\ wlog = <<>>
    /\ werr = NoError
    /\ wop = "new"

\* ------------------------------------------------------------ SpecProcess
\* The processes constructed: every kind with every parameter in the bounds.
InitialProcesses ==
    {NewProcess("Plain", 0, 0, FALSE)}
    \cup {NewProcess("ManyPass", k, 0, FALSE) : k \in 1..MaxPasses}
    \cup {NewProcess("Delayed", 0, n, r) : n \in 1..MaxTicks, r \in BOOLEAN}

InitProcess ==
    /\ process \in InitialProcesses
    /\ perr = NoError
    /\ pop = "new"
    /\ IdleKeepers
    /\ IdleInteraction
    /\ IdleWorld
    /\ IdleUnit

\* process.update()
Update ==
    /\ process.ups < MaxUpdates
    /\ LET r == ProcessUpdate(process)
       IN  /\ process' = r.p
           /\ perr' = r.err
    /\ pop' = "update"
    /\ UNCHANGED <<passVars, activatorVars, unitVars, keeperVars, interVars, worldVars>>

\* process.state = SleepProcessState(process, n), set from outside.
ImposeSleep(n) ==
    /\ process.ups < MaxUpdates
    /\ process' = [process EXCEPT !.st = "Sleep", !.ticks = n, !.sn = n,
                                  !.su = 0, !.serr = FALSE, !.pure = FALSE]
    /\ perr' = NoError
    /\ pop' = "impose"
    /\ UNCHANGED <<passVars, activatorVars, unitVars, keeperVars, interVars, worldVars>>

\* process.state = CompletedProcessState(process), set from outside.
ImposeCompleted ==
    /\ process.ups < MaxUpdates
    /\ process.st # "Completed"
    /\ process' = [process EXCEPT !.st = "Completed", !.ticks = 0,
                                  !.sn = 0, !.su = 0, !.serr = FALSE,
                                  !.pure = FALSE]
    /\ perr' = NoError
    /\ pop' = "impose"
    /\ UNCHANGED <<passVars, activatorVars, unitVars, keeperVars, interVars, worldVars>>

\* process.state = F(process), set from outside, for a class F made by
\* FlagProcessState.create_flag_state(name, is_standing, attributes) with a
\* _handle among the attributes.
ImposeFlag(standing) ==
    /\ process.ups < MaxUpdates
    /\ process' = [process EXCEPT !.st = "Flag", !.ticks = 0, !.sn = 0,
                                  !.su = 0, !.serr = FALSE, !.pure = FALSE,
                                  !.declared = standing]
    /\ perr' = NoError
    /\ pop' = "impose"
    /\ UNCHANGED <<passVars, activatorVars, unitVars, keeperVars, interVars, worldVars>>

NextProcess ==
    \/ Update
    \/ \E n \in 1..MaxTicks : ImposeSleep(n)
    \/ ImposeCompleted
    \/ \E standing \in BOOLEAN : ImposeFlag(standing)

SpecProcess == InitProcess /\ [][NextProcess]_vars

\* --------------------------------------------------------- SpecUpdateLoop
\* SpecProcess with update() taken one step at a time: pop = "loop" while the
\* call is in the loop that ends it.
MaxLoop == 4

\* process.update() up to its loop
BeginUpdate ==
    /\ pop # "loop"
    /\ process.ups < MaxUpdates
    /\ LET r == ProcessUpdateToLoop(process)
       IN  /\ process' = r.p
           /\ perr' = r.err
           /\ pop' = IF r.err = NoError THEN "loop" ELSE "update"
    /\ turns' = 0
    /\ UNCHANGED <<threaded, interactive, icalled, warg, activatorVars, unitVars,
                   keeperVars, interVars, worldVars>>

\* one turn of the loop; the call returns when the loop is left
LoopTurn ==
    /\ pop = "loop"
    /\ turns < MaxLoop
    /\ LET r == ResetLoopTurn(process)
       IN  /\ process' = r.p
           /\ pop' = IF r.left THEN "update" ELSE "loop"
    /\ turns' = turns + 1
    /\ UNCHANGED <<threaded, perr, interactive, icalled, warg, activatorVars,
                   unitVars,
                   keeperVars, interVars, worldVars>>

\* The state is set from outside between two calls of update().
NextUpdateLoop ==
    \/ BeginUpdate
    \/ LoopTurn
    \/ pop # "loop" /\ \E n \in 1..MaxTicks : ImposeSleep(n)
    \/ pop # "loop" /\ ImposeCompleted
    \/ pop # "loop" /\ \E standing \in BOOLEAN : ImposeFlag(standing)

\* The thread that called update() goes on running.
SpecUpdateLoop ==
    InitProcess /\ [][NextUpdateLoop]_vars /\ WF_vars(LoopTurn)

\* ------------------------------------------------------- SpecThreadedLoop
\* The _handle() calls of a threaded loop that are counted.
MaxHandled == 16

\* A SeparateThreadedLoop as constructed; the rest of the program idle.
InitThreadedLoop ==
    /\ InitProcess
    /\ process = NewProcess("Plain", 0, 0, FALSE)

\* SeparateThreadedLoop.run(): the thread is started; its target, the run()
\* of the loop, has executed nothing yet when start() returns.
RunThreaded ==
    /\ threaded.caller = "new"
    /\ threaded' = [threaded EXCEPT !.thread = "started", !.caller = "run"]
    /\ UNCHANGED <<turns, interactive, icalled, warg, procVars, activatorVars,
                   unitVars, keeperVars, interVars, worldVars>>

\* SeparateThreadedLoop.finish(), its first statement: self._loop.finish()
\* sets _is_working to False.
FinishLoop ==
    /\ threaded.caller = "run"
    /\ threaded' = [threaded EXCEPT !.is_working = FALSE, !.caller = "join"]
    /\ UNCHANGED <<turns, interactive, icalled, warg, procVars, activatorVars,
                   unitVars, keeperVars, interVars, worldVars>>

\* SeparateThreadedLoop.finish(), its second statement: self._thread.join()
\* returns once the thread has ended.
JoinThread ==
    /\ threaded.caller = "join"
    /\ threaded.thread = "ended"
    /\ threaded' = [threaded EXCEPT !.caller = "finished"]
    /\ UNCHANGED <<turns, interactive, icalled, warg, procVars, activatorVars,
                   unitVars, keeperVars, interVars, worldVars>>

\* Loop.run() in the thread, its first statement: self._is_working = True.
SetWorking ==
    /\ threaded.thread = "started"
    /\ threaded' = [threaded EXCEPT !.is_working = TRUE, !.thread = "while"]
    /\ UNCHANGED <<turns, interactive, icalled, warg, procVars, activatorVars,
                   unitVars, keeperVars, interVars, worldVars>>

\* Loop.run() in the thread: the test of `while self._is_working`.
TestWorking ==
    /\ threaded.thread = "while"
    /\ threaded' = [threaded EXCEPT
                       !.thread = IF threaded.is_working THEN "handle"
                                  ELSE "ended"]
    /\ UNCHANGED <<turns, interactive, icalled, warg, procVars, activatorVars,
                   unitVars, keeperVars, interVars, worldVars>>

\* Loop.run() in the thread: self._handle(); the calls are counted up to
\* MaxHandled.
HandleInThread ==
    /\ threaded.thread = "handle"
    /\ threaded' = [threaded EXCEPT
                       !.thread = "while",
                       !.handled = IF @ < MaxHandled THEN @ + 1 ELSE @]
    /\ UNCHANGED <<turns, interactive, icalled, warg, procVars, activatorVars,
                   unitVars, keeperVars, interVars, worldVars>>

\* The steps of the loop's thread and those of the caller after run().
ThreadStep == SetWorking \/ TestWorking \/ HandleInThread

CallerStep == FinishLoop \/ JoinThread

NextThreadedLoop ==
    \/ RunThreaded
    \/ FinishLoop
    \/ JoinThread
    \/ SetWorking
    \/ TestWorking
    \/ HandleInThread

\* Both threads go on running: the interpreter lets each of them run again
\* and again, in any interleaving.
SpecThreadedLoop ==
    /\ InitThreadedLoop
    /\ [][NextThreadedLoop]_vars
    /\ WF_vars(ThreadStep)
    /\ WF_vars(CallerStep)

\* ------------------------------------------------------------- SpecKeeper
\* The keeper under test.
K == 1

\* The processes given to keepers: every kind; their _handle() does nothing
\* but count.
KeeperProcesses ==
    {p \in InitialProcesses : ~p.rearm}

\* An order on the processes as constructed.  A keeper does not tell process
\* objects apart, so the process objects are numbered in this order.
ProcessRank(p) ==
    CASE p.kind = "Plain"    -> 0
      [] p.kind = "ManyPass" -> p.passes
      [] OTHER               -> MaxPasses + p.n

InitKeeper ==
    /\ proc \in [Procs -> KeeperProcesses]
    /\ \A p, q \in Procs : p < q => ProcessRank(proc[p]) <= ProcessRank(proc[q])
    /\ keeper = [u \in Units |-> NewKeeper]
    /\ IdleKeeperCalls
    /\ IdleProcess
    /\ IdleInteraction
    /\ IdleWorld
    /\ IdleUnit

\* keeper.add_process(p): every process object is an IProcess, so
\* is_support_process holds.
AddProcess(p) ==
    /\ p \notin keeper[K].processes
    /\ keeper' = [keeper EXCEPT ![K].processes = @ \cup {p}]
    /\ kop' = "add_process"
    /\ kerr' = NoError
    /\ UNCHANGED <<passVars, activatorVars, unitVars, proc, kcalls, procVars, interVars, worldVars>>

\* keeper.remove_process(p)
RemoveProcess(p) ==
    /\ p \in keeper[K].processes
    /\ keeper' = [keeper EXCEPT ![K].processes = @ \ {p}]
    /\ kop' = "remove_process"
    /\ kerr' = NoError
    /\ UNCHANGED <<passVars, activatorVars, unitVars, proc, kcalls, procVars, interVars, worldVars>>

\* keeper.activate_processes()
Activate ==
    /\ kcalls < MaxCalls
    /\ \E order \in Orders(keeper[K].processes) :
          LET r == ActivateProcesses(keeper[K], proc, order)
          IN  /\ keeper' = [keeper EXCEPT ![K] = r.keeper]
              /\ proc' = r.proc
              /\ kerr' = r.err
    /\ kop' = "activate_processes"
    /\ kcalls' = kcalls + 1
    /\ UNCHANGED <<passVars, activatorVars, unitVars, procVars, interVars, worldVars>>

\* keeper.clear_completed_processes()
ClearCompleted ==
    /\ keeper[K].completed # <<>>
    /\ keeper' = [keeper EXCEPT ![K] = ClearCompletedProcesses(@)]
    /\ kop' = "clear_completed_processes"
    /\ kerr' = NoError
    /\ UNCHANGED <<passVars, activatorVars, unitVars, proc, kcalls, procVars, interVars, worldVars>>

NextKeeper ==
    \/ \E p \in Procs : AddProcess(p)
    \/ \E p \in Procs : RemoveProcess(p)
    \/ Activate
    \/ ClearCompleted

SpecKeeper == InitKeeper /\ [][NextKeeper]_vars

\* ------------------------------------------------------- SpecKeptProcess
\* SpecKeeper with the processes also updated directly; kcalls counts these
\* calls too.

\* p.update(), called on a process object from outside the keeper.
UpdateKept(p) ==
    /\ kcalls < MaxCalls
    /\ \E r \in {ProcessUpdate(proc[p])} :
          /\ proc' = [proc EXCEPT ![p] = r.p]
          /\ kerr' = r.err
    /\ kop' = "update"
    /\ kcalls' = kcalls + 1
    /\ UNCHANGED <<passVars, activatorVars, unitVars, keeper, procVars,
                   interVars, worldVars>>

NextKeptProcess ==
    \/ NextKeeper
    \/ \E p \in Procs : UpdateKept(p)

SpecKeptProcess == InitKeeper /\ [][NextKeptProcess]_vars

\* ----------------------------------------------------- SpecAddingKeeper
\* One keeper whose processes may add processes to it while it activates
\* them.

\* keeper.activate_processes() where the _handle of at most one process, a,
\* calls keeper.add_process(q).  The processes added during the call are
\* recorded as the events of the call.
ActivateAdding ==
    /\ kcalls < MaxCalls
    /\ \E order \in Orders(keeper[K].processes) :
       \E a \in Procs \cup {0}, q \in Procs :
       \E r \in {ActivateProcessesAdding(keeper[K], proc, order,
                     [p \in Procs |-> IF p = a THEN q ELSE 0])} :
          /\ keeper' = [keeper EXCEPT ![K] = r.keeper]
          /\ proc' = r.proc
          /\ kerr' = r.err
          /\ wevents' = [i \in DOMAIN r.added |->
                            [op |-> "add_process", unit |-> 0,
                             proc |-> r.added[i]]]
    /\ kop' = "activate_processes"
    /\ kcalls' = kcalls + 1
    /\ UNCHANGED <<passVars, wkeeper, unitVars, procVars, interVars, worldVars>>

\* keeper.add_process(p) from outside an activation.
AddProcessOutside(p) ==
    /\ p \notin keeper[K].processes
    /\ keeper' = [keeper EXCEPT ![K].processes = @ \cup {p}]
    /\ kop' = "add_process"
    /\ kerr' = NoError
    /\ wevents' = <<>>
    /\ UNCHANGED <<passVars, wkeeper, unitVars, proc, kcalls, procVars, interVars,
                   worldVars>>

NextAddingKeeper ==
    \/ \E p \in Procs : AddProcessOutside(p)
    \/ ActivateAdding

SpecAddingKeeper == InitKeeper /\ [][NextAddingKeeper]_vars

\* -------------------------------------------------- SpecCompletingKeeper
\* One keeper whose processes may complete one another while it activates
\* them.

\* The processes are plain and many-pass processes.
InitCompletingKeeper ==
    /\ InitKeeper
    /\ \A p \in Procs : proc[p].kind # "Delayed"

\* What the processes of a set complete: none of them anything, or one of
\* them another of them.
Completions(S) ==
    {[p \in Procs |-> 0]}
    \cup {[p \in Procs |-> IF p = t[1] THEN t[2] ELSE 0] :
             t \in {x \in S \X S : x[1] # x[2]}}

\* keeper.activate_processes() where the _handle of at most one of the
\* processes kept sets the state of another of them to Completed.
ActivateCompleting ==
    /\ kcalls < MaxCalls
    /\ \E order \in Orders(keeper[K].processes) :
       \E ends \in Completions(keeper[K].processes) :
       \E r \in {ActivateProcessesCompleting(keeper[K], proc, order, ends)} :
          /\ keeper' = [keeper EXCEPT ![K] = r.keeper]
          /\ proc' = r.proc
          /\ kerr' = r.err
    /\ kop' = "activate_processes"
    /\ kcalls' = kcalls + 1
    /\ UNCHANGED <<passVars, activatorVars, unitVars, procVars, interVars,
                   worldVars>>

NextCompletingKeeper ==
    \/ \E p \in Procs : AddProcess(p)
    \/ ActivateCompleting

SpecCompletingKeeper ==
    InitCompletingKeeper /\ [][NextCompletingKeeper]_vars

\* -------------------------------------------------- SpecConservingKeeper
\* One keeper of plain and many-pass processes, whose updates never raise,
\* under add_process, activate_processes and clear_completed_processes.
NextConservingKeeper ==
    \/ \E p \in Procs : AddProcess(p)
    \/ Activate
    \/ ClearCompleted

SpecConservingKeeper ==
    InitCompletingKeeper /\ [][NextConservingKeeper]_vars

\* -------------------------------------------------------- SpecInteraction
\* The units that are InteractiveUnit objects.
InteractiveUnits == {u \in Units : IsInteractive(u)}

InitInteraction ==
    /\ factories \in FactoryTuples
    /\ cache = [u \in Units |-> NewCache]
    /\ mark = [u \in Units |-> FALSE]
    /\ IdleInteractionCalls
    /\ IdleProcess
    /\ IdleKeepers
    /\ IdleWorld
    /\ IdleUnit

\* a.is_support_interaction_with(b)
CallIsSupportInteractionWith(a, b) ==
    /\ \E r \in {IsSupportInteractionWith(a, b, NewContext(keeper, proc, cache),
                                           factories, mark)} :
           /\ ires' = r.sign
           /\ cache' = r.ctx.cache
           /\ itested' = r.ctx.tested
           /\ ilooked' = r.ctx.looked
    /\ iop' = "is_support_interaction_with"
    /\ iargs' = <<a, b>>
    /\ ibatch' = {}
    /\ ierr' = NoError
    /\ UNCHANGED <<passVars, activatorVars, unitVars, factories, mark, procVars, keeperVars, worldVars>>

\* a.interact_with(b)
CallInteractWith(a, b) ==
    /\ \E r \in {InteractWith(a, b, NewContext(keeper, proc, cache),
                               factories, mark)} :
           /\ keeper' = r.keeper
           /\ proc' = r.proc
           /\ cache' = r.cache
           /\ ierr' = r.err
           /\ itested' = r.tested
           /\ ilooked' = r.looked
    /\ iop' = "interact_with"
    /\ iargs' = <<a, b>>
    /\ ibatch' = {}
    /\ ires' = FALSE
    /\ UNCHANGED <<passVars, activatorVars, unitVars, factories, mark, kop, kerr, kcalls, procVars, worldVars>>

\* UnitRelationsActivator._handle_units(units)
CallActivateRelations(units) ==
    /\ \E order \in Orders(units) :
          \E r \in {ActivateRelations(order, units, order,
                                      NewContext(keeper, proc, cache),
                                      factories, mark)} :
              /\ keeper' = r.keeper
              /\ proc' = r.proc
              /\ cache' = r.cache
              /\ ierr' = r.err
              /\ itested' = r.tested
              /\ ilooked' = r.looked
    /\ iop' = "activate_relations"
    /\ iargs' = <<0, 0>>
    /\ ibatch' = units
    /\ ires' = FALSE
    /\ UNCHANGED <<passVars, activatorVars, unitVars, factories, mark, kop, kerr, kcalls, procVars, worldVars>>

\* The state of unit u that a process type's is_support_participants reads
\* is changed from outside.
ChangeMark(u) ==
    /\ mark' = [mark EXCEPT ![u] = ~@]
    /\ iop' = "change"
    /\ iargs' = <<u, u>>
    /\ ibatch' = {}
    /\ ires' = FALSE
    /\ ierr' = NoError
    /\ itested' = 0
    /\ ilooked' = <<>>
    /\ UNCHANGED <<passVars, activatorVars, unitVars, factories, cache, procVars, keeperVars, worldVars>>

NextInteraction ==
    \/ \E a \in InteractiveUnits, b \in Units : CallIsSupportInteractionWith(a, b)
    \/ \E a \in InteractiveUnits, b \in Units : CallInteractWith(a, b)
    \/ \E u \in Units : ChangeMark(u)

SpecInteraction == InitInteraction /\ [][NextInteraction]_vars

\* ---------------------------------------------------------- SpecRelations
\* The units under the access pattern of the pipeline: the only calls are the
\* passes of UnitRelationsActivator, between which the state of a unit may
\* change.
NextRelations ==
    \/ \E units \in SUBSET Units : CallActivateRelations(units)
    \/ \E u \in Units : ChangeMark(u)

SpecRelations == InitInteraction /\ [][NextRelations]_vars

\* --------------------------------------------------------------- SpecPass
\* Units of classes that implement InteractiveUnit themselves, and units
\* that are no InteractiveUnit, under passes of the relations activator.
InitPass ==
    /\ interactive \in SUBSET Units
    /\ icalled = <<>>
    /\ warg = <<>>
    /\ turns = 0
    /\ threaded = NewSeparateThreadedLoop
    /\ IdleInteraction
    /\ IdleProcess
    /\ IdleKeepers
    /\ IdleWorld
    /\ IdleMover
    /\ IdleParts

\* The ordered pairs of different units.
Pairs == {t \in Units \X Units : t[1] # t[2]}

\* The batches a pass is made over: up to three units.
PassBatches == {S \in SUBSET Units : Cardinality(S) <= 3}

\* UnitRelationsActivator._handle_units(units): the tuple is in some order,
\* set(units) is iterated in some order, and at most one pair of the batch
\* is such that is_support_interaction_with reports false for it.
CallPass(units) ==
    /\ \E order \in Orders(units), sorder \in Orders(units),
          raising \in {{}} \cup {{t} : t \in Pairs \cap (units \X units)} :
          \E r \in {PassOver(order, units, sorder,
                              [called |-> <<>>, err |-> NoError],
                              interactive, raising)} :
              /\ icalled' = r.called
              /\ ierr' = r.err
    /\ iop' = "pass"
    /\ ibatch' = units
    /\ UNCHANGED <<threaded, turns, interactive, warg, iargs, ires, itested, ilooked, factories,
                   cache, mark, activatorVars, unitVars, procVars, keeperVars,
                   worldVars>>

NextPass ==
    \E units \in PassBatches : CallPass(units)

SpecPass == InitPass /\ [][NextPass]_vars

\* ------------------------------------------------------------- SpecMotion
\* The vectors set from outside.
Steps == (-MaxStep)..MaxStep

InitMotion ==
    /\ \E wrapped \in BOOLEAN, limit \in 1..MaxLimit : mover = NewUnit(wrapped, limit)
    /\ mop = "new"
    /\ merr = NoError
    /\ IdleParts
    /\ IdlePass
    /\ IdleProcess
    /\ IdleKeepers
    /\ IdleInteraction
    /\ IdleWorld

\* The impulse: vector_to_next_unit_position of the AbruptImpulseProcess is
\* set to v.
SetVector(v) ==
    /\ mover' = [mover EXCEPT !.vector = v, !.impulse = v, !.moved = 0,
                              !.updated = FALSE, !.ticked = FALSE]
    /\ mop' = "set"
    /\ merr' = NoError
    /\ UNCHANGED <<passVars, activatorVars, graph, dop, darg, dres,
                   procVars, keeperVars, interVars, worldVars>>

\* unit.move()
Move ==
    /\ mover.moves < MaxMoves
    /\ LET r == ProcessMovableUnitMove(mover)
       IN  /\ mover' = [r.unit EXCEPT !.moved = @ + 1, !.moves = @ + 1,
                                      !.updated = FALSE,
                                      !.ticked = mover.updated]
           /\ merr' = r.err
    /\ mop' = "move"
    /\ UNCHANGED <<passVars, activatorVars, graph, dop, darg, dres,
                   procVars, keeperVars, interVars, worldVars>>

\* unit.moving_process.update(), once between two other calls
UpdateMovingProcess ==
    /\ ~mover.updated
    /\ mover.process.ups < MaxUpdates
    /\ LET r == MovingProcessUpdate(mover)
       IN  /\ mover' = [r.unit EXCEPT !.updated = TRUE]
           /\ merr' = r.err
    /\ mop' = "update"
    /\ UNCHANGED <<passVars, activatorVars, graph, dop, darg, dres,
                   procVars, keeperVars, interVars, worldVars>>

NextMotion ==
    \/ \E v \in Steps : SetVector(v)
    \/ Move
    \/ UpdateMovingProcess

SpecMotion == InitMotion /\ [][NextMotion]_vars

\* -------------------------------------------------------------- SpecParts
InitParts ==
    /\ IdleParts
    /\ IdleMover
    /\ IdlePass
    /\ IdleProcess
    /\ IdleKeepers
    /\ IdleInteraction
    /\ IdleWorld

\* The number of parts the units hold together.
NumberOfParts(g) ==
    Cardinality({e \in Units \X Units : e[2] \in g[e[1]]})

\* Unit u is given unit p as a part.
AddPart(u, p) ==
    /\ p \notin graph[u]
    /\ NumberOfParts(graph) < MaxParts
    /\ graph' = [graph EXCEPT ![u] = @ \cup {p}]
    /\ dop' = "add_part"
    /\ darg' = u
    /\ dres' = [parts |-> {}, err |-> NoError]
    /\ UNCHANGED <<passVars, activatorVars, mover, mop, merr, procVars, keeperVars, interVars, worldVars>>

\* u.deep_parts
CallDeepParts(u) ==
    /\ dres' \in DeepPartsOutcomes(u, graph)
    /\ dop' = "deep_parts"
    /\ darg' = u
    /\ UNCHANGED <<passVars, activatorVars, graph, mover, mop, merr,
                   procVars, keeperVars, interVars, worldVars>>

NextParts ==
    \/ \E u, p \in Units : AddPart(u, p)
    \/ \E u \in Units : CallDeepParts(u)

SpecParts == InitParts /\ [][NextParts]_vars

\* ------------------------------------------------------------------- Spec
\* The processes a unit of the world is given: one that completes on its
\* first update or one that sleeps first.
WorldProcesses ==
    {NewProcess("ManyPass", 1, 0, FALSE), NewProcess("Delayed", 0, 1, FALSE)}

\* The process object that is given to units of the world.
P == 1

\* World(inhabitants) of a world class with a tuple of handler factories.
Init ==
    /\ handlerFactories \in Pipelines
    /\ handlers = UnitHandlers(handlerFactories)
    /\ inhabitants \in SUBSET Units
    /\ wlog = <<>>
    /\ werr = NoError
    /\ wop = "new"
    /\ \E w \in WorldProcesses :
          proc = [p \in Procs |-> IF p = P THEN w
                                  ELSE NewProcess("Plain", 0, 0, FALSE)]
    /\ keeper = [u \in Units |-> NewKeeper]
    /\ IdleKeeperCalls
    /\ factories \in {<<>>, <<"WithAny">>}
    /\ cache = [u \in Units |-> NewCache]
    /\ mark = [u \in Units |-> FALSE]
    /\ IdleInteractionCalls
    /\ IdleProcess
    /\ IdleUnit
    /\ IdleActivator

\* The processes the keepers among units hold.
KeptProcesses(units, keepers) ==
    UNION {keepers[u].processes : u \in units}

\* world.update(), while no update has raised; the units and the processes
\* are iterated in some order.
Tick ==
    /\ werr = NoError
    /\ \A p \in Procs : proc[p].ups < MaxUpdates
    /\ \E order \in Orders(DeepParts(inhabitants)),
          porder \in Orders(KeptProcesses(DeepParts(inhabitants), keeper)) :
          \E r \in {WorldUpdate(handlers, inhabitants,
                                NewContext(keeper, proc, cache),
                                [order |-> order, porder |-> porder,
                                 factories |-> factories, mark |-> mark])} :
              /\ keeper' = r.ctx.keeper
              /\ proc' = r.ctx.proc
              /\ cache' = r.ctx.cache
              /\ werr' = r.ctx.err
              /\ wlog' = r.log
    /\ wop' = "update"
    /\ UNCHANGED <<passVars, activatorVars, unitVars, inhabitants, handlerFactories, handlers, factories, mark,
                   iop, iargs, ibatch, ires, ierr, itested, ilooked,
                   kop, kerr, kcalls, procVars>>

\* world.add_inhabitant(u): every unit is an IUpdatable and no World.
AddInhabitant(u) ==
    /\ u \notin inhabitants
    /\ inhabitants' = inhabitants \cup {u}
    /\ wop' = "add_inhabitant"
    /\ UNCHANGED <<passVars, activatorVars, unitVars, handlerFactories, handlers, wlog, werr,
                   procVars, keeperVars, interVars>>

\* world.remove_inhabitant(u)
RemoveInhabitant(u) ==
    /\ u \in inhabitants
    /\ inhabitants' = inhabitants \ {u}
    /\ wop' = "remove_inhabitant"
    /\ UNCHANGED <<passVars, activatorVars, unitVars, handlerFactories, handlers, wlog, werr,
                   procVars, keeperVars, interVars>>

\* u.add_process(P) of a unit that keeps processes, while no keeper has been
\* given P.
UnitAddProcess(u) ==
    /\ IsProcessKeeper(u)
    /\ \A v \in Units : P \notin keeper[v].processes \cup Range(keeper[v].completed)
    /\ keeper' = [keeper EXCEPT ![u].processes = @ \cup {P}]
    /\ wop' = "add_process"
    /\ UNCHANGED <<passVars, activatorVars, unitVars, proc, kop, kerr, kcalls, inhabitants, handlerFactories,
                   handlers, wlog, werr, procVars, interVars>>

Next ==
    \/ Tick
    \/ \E u \in Units : AddInhabitant(u)
    \/ \E u \in Units : RemoveInhabitant(u)
    \/ \E u \in Units : UnitAddProcess(u)

Spec == Init /\ [][Next]_vars

\* ---------------------------------------------------------- SpecActivator
\* The handler factories of a world that activates world processes:
\* WorldProcessesActivator alone, or with UnitProcessesActivator before or
\* after it.
ActivatorPipelines ==
    {<<"WorldProcessesActivator">>,
     <<"UnitProcessesActivator", "WorldProcessesActivator">>,
     <<"WorldProcessesActivator", "UnitProcessesActivator">>}

\* A world with the handler factories fs, some inhabitants, a world process
\* P of either class and with any participants, a second process that is a
\* world process like P or a plain one, and plain processes.
InitWorld(fs) ==
    /\ handlerFactories = fs
    /\ handlers = UnitHandlers(handlerFactories)
    /\ inhabitants \in SUBSET Units
    /\ wlog = <<>>
    /\ werr = NoError
    /\ wop = "new"
    /\ \E e \in WorldProcessKinds, ps \in ParticipantTuples :
       \E second \in {NewUnitProcess, NewWorldProcess(e, ps)} :
          proc = [p \in Procs |-> IF p = P THEN NewWorldProcess(e, ps)
                                  ELSE IF p = P + 1 THEN second
                                  ELSE NewUnitProcess]
    /\ keeper = [u \in Units |-> NewKeeper]
    /\ IdleActivator
    /\ IdleKeeperCalls
    /\ IdleInteraction
    /\ IdleProcess
    /\ IdleUnit

\* What a call leaves: the world, the keepers, the processes and the record
\* of the call.
Leaves(r, op) ==
    /\ inhabitants' = r.inh
    /\ keeper' = r.keeper
    /\ proc' = r.proc
    /\ wkeeper' = r.wkeeper
    /\ werr' = r.err
    /\ wevents' = r.events
    /\ wlog' = r.log
    /\ wop' = op

\* The processes some keeper holds: a unit's or the handler's.
HeldProcesses == KeptProcesses(Units, keeper) \cup wkeeper.processes

\* u.add_process(p) of a unit that keeps processes, for a process no keeper
\* holds.
GiveProcess(u, p) ==
    /\ IsProcessKeeper(u)
    /\ p \notin HeldProcesses
    /\ keeper' = [keeper EXCEPT ![u].processes = @ \cup {p}]
    /\ wop' = "add_process"
    /\ wevents' = <<>>
    /\ wlog' = <<>>
    /\ werr' = NoError
    /\ UNCHANGED <<passVars, unitVars, proc, kop, kerr, kcalls, inhabitants,
                   handlerFactories, handlers, wkeeper, procVars, interVars>>

\* The tuples of units the handler is called with: no unit, one or two.
Batches ==
    {<<>>} \cup {<<a>> : a \in Units}
           \cup {t \in {<<a, b>> : a, b \in Units} : t[1] # t[2]}

\* The world's WorldProcessesActivator called with a tuple of units whose
\* keepers hold processes, while no process has been updated MaxCalls times.
CallActivator(units) ==
    /\ \A p \in Procs : proc[p].ups < MaxCalls
    /\ \A k \in DOMAIN units :
          IsProcessKeeper(units[k]) => keeper[units[k]].processes # {}
    /\ \E i \in DOMAIN handlers :
          /\ handlers[i] = "WorldProcessesActivator"
          /\ \E porder \in Orders(HeldProcesses) :
                \E r \in {HandlerCallInWorld(i, handlers[i], units,
                              NewWorld(inhabitants, keeper, proc, wkeeper),
                              porder)} :
                    Leaves(r, "handler")
    /\ UNCHANGED <<passVars, unitVars, handlerFactories, handlers, kop, kerr, kcalls,
                   procVars, interVars>>

\* P is given to a unit at any time, the second process while a unit holds P.
NextActivator ==
    \/ \E units \in Batches : CallActivator(units)
    \/ \E u \in Units : GiveProcess(u, P)
    \/ \E u \in Units : /\ \E v \in Units : P \in keeper[v].processes
                         /\ GiveProcess(u, P + 1)

SpecActivator == InitWorld(<<"WorldProcessesActivator">>) /\ [][NextActivator]_vars

\* --------------------------------------------------------- SpecWorldTicks
\* world.update(), while no process has been updated MaxUpdates times; the
\* units and the processes are iterated in some order.
TickWorld ==
    /\ \A p \in Procs : proc[p].ups < MaxUpdates
    /\ \E order \in Orders({u \in Units : IsProcessKeeper(u)}),
          porder \in Orders(HeldProcesses) :
          \E r \in {UpdateInWorldFrom(1, handlers,
                        NewWorld(inhabitants, keeper, proc, wkeeper),
                        order, porder)} :
              Leaves(r, "update")
    /\ UNCHANGED <<passVars, unitVars, handlerFactories, handlers, kop, kerr, kcalls,
                   procVars, interVars>>

InitWorldTicks ==
    \E fs \in ActivatorPipelines : InitWorld(fs)

NextWorldTicks ==
    \/ TickWorld
    \/ \E u \in Units : GiveProcess(u, P)
    \/ \E u \in Units : /\ \E v \in Units : P \in keeper[v].processes
                         /\ GiveProcess(u, P + 1)

SpecWorldTicks == InitWorldTicks /\ [][NextWorldTicks]_vars

\* ------------------------------------------------------- SpecWorldProcess
\* p.world = world, set directly on a world process.
AttachWorld(p) ==
    /\ IsWorldProcess(proc[p])
    /\ ~proc[p].world
    /\ proc' = [proc EXCEPT ![p].world = TRUE]
    /\ wop' = "attach"
    /\ wevents' = <<>>
    /\ wlog' = <<>>
    /\ werr' = NoError
    /\ UNCHANGED <<passVars, unitVars, keeper, kop, kerr, kcalls, inhabitants,
                   handlerFactories, handlers, wkeeper, procVars, interVars>>

\* p.start(), called directly on a world process.
StartProcess(p) ==
    /\ IsWorldProcess(proc[p])
    /\ \E r \in {WorldProcessStart(proc[p])} :
          /\ proc' = [proc EXCEPT ![p] = r.p]
          /\ werr' = r.err
    /\ wop' = "start"
    /\ wevents' = <<>>
    /\ wlog' = <<>>
    /\ UNCHANGED <<passVars, unitVars, keeper, kop, kerr, kcalls, inhabitants,
                   handlerFactories, handlers, wkeeper, procVars, interVars>>

\* p.update(), called directly on a world process, while it has not been
\* updated MaxCalls times.
UpdateProcess(p) ==
    /\ IsWorldProcess(proc[p])
    /\ proc[p].ups < MaxCalls
    /\ \E r \in {UpdateWorldProcess(p,
                     NewWorld(inhabitants, keeper, proc, wkeeper))} :
          Leaves(r, "process_update")
    /\ UNCHANGED <<passVars, unitVars, handlerFactories, handlers, kop, kerr, kcalls,
                   procVars, interVars>>

\* handler.add_process(p), called directly on the world's
\* WorldProcessesActivator with a process it does not hold.
ActivatorAdd(p) ==
    /\ p \notin wkeeper.processes
    /\ \E r \in {ActivatorAddProcess(p,
                     NewWorld(inhabitants, keeper, proc, wkeeper))} :
          Leaves(r, "activator_add_process")
    /\ UNCHANGED <<passVars, unitVars, handlerFactories, handlers, kop, kerr, kcalls,
                   procVars, interVars>>

\* world.update() of a world whose processes may raise, while no update has
\* raised and no process has been updated MaxCalls times.
UpdateWorld ==
    /\ werr = NoError
    /\ \A p \in Procs : proc[p].ups < MaxCalls
    /\ \E order \in Orders({u \in Units : IsProcessKeeper(u)}),
          porder \in Orders(HeldProcesses) :
          \E r \in {UpdateInWorldFrom(1, handlers,
                        NewWorld(inhabitants, keeper, proc, wkeeper),
                        order, porder)} :
              Leaves(r, "update")
    /\ UNCHANGED <<passVars, unitVars, handlerFactories, handlers, kop, kerr,
                   kcalls, procVars, interVars>>

\* A world that every unit inhabits, and world processes of one class that
\* all name the same unit.
InitWorldErrors ==
    /\ handlerFactories \in ActivatorPipelines
    /\ handlers = UnitHandlers(handlerFactories)
    /\ inhabitants = Units
    /\ wlog = <<>>
    /\ werr = NoError
    /\ wop = "new"
    /\ \E e \in WorldProcessKinds, u \in Units :
          proc = [p \in Procs |-> NewWorldProcess(e, <<u>>)]
    /\ keeper = [u \in Units |-> NewKeeper]
    /\ IdleActivator
    /\ IdleKeeperCalls
    /\ IdleInteraction
    /\ IdleProcess
    /\ IdleUnit

\* Processes are given to units and the world is updated until an update
\* raises.
NextWorldErrors ==
    \/ UpdateWorld
    \/ \E u \in Units, p \in Procs : werr = NoError /\ GiveProcess(u, p)

SpecWorldErrors == InitWorldErrors /\ [][NextWorldErrors]_vars

\* ------------------------------------------------------ SpecWorldBatches
\* The handler factories of a world whose world processes are activated
\* before or between other handlers.
BatchPipelines ==
    {<<"WorldProcessesActivator", "UnitProcessesActivator">>,
     <<"WorldProcessesActivator", "UnitUpdater">>,
     <<"UnitUpdater", "WorldProcessesActivator", "UnitProcessesActivator">>}

\* A world and world processes of one class that all name the same unit:
\* a unit to spawn that is no inhabitant yet, or an inhabitant to kill.
InitWorldBatches ==
    /\ handlerFactories \in BatchPipelines
    /\ handlers = UnitHandlers(handlerFactories)
    /\ wlog = <<>>
    /\ werr = NoError
    /\ wop = "new"
    /\ \E e \in WorldProcessKinds, u \in Units :
          /\ proc = [p \in Procs |-> NewWorldProcess(e, <<u>>)]
          /\ inhabitants = IF e = "UnitSpawn" THEN Units \ {u} ELSE Units
    /\ keeper = [u \in Units |-> NewKeeper]
    /\ IdleActivator
    /\ IdleKeeperCalls
    /\ IdleInteraction
    /\ IdleProcess
    /\ IdleUnit

\* The orders in which deep_parts is iterated: the units that keep
\* processes in any order; the other units, whose update() does nothing,
\* after them.
UnitOrders ==
    {o \o InTurn({u \in Units : ~IsProcessKeeper(u)}) :
        o \in Orders({u \in Units : IsProcessKeeper(u)})}

\* world.update(), while no update has raised and no process has been
\* updated MaxCalls times; deep_parts and the processes are iterated in some
\* order.
UpdateWorldBatches ==
    /\ werr = NoError
    /\ \A p \in Procs : proc[p].ups < MaxCalls
    /\ \E order \in UnitOrders, porder \in Orders(HeldProcesses) :
          \E r \in {UpdateInWorldFrom(1, handlers,
                        NewWorld(inhabitants, keeper, proc, wkeeper),
                        order, porder)} :
              Leaves(r, "update")
    /\ UNCHANGED <<passVars, unitVars, handlerFactories, handlers, kop, kerr,
                   kcalls, procVars, interVars>>

\* The processes are alike, so of those that no keeper holds the one with
\* the least number is given.
NextWorldBatches ==
    \/ UpdateWorldBatches
    \/ \E u \in Units, p \in Procs :
          /\ werr = NoError
          /\ \A q \in Procs \ HeldProcesses : p <= q
          /\ GiveProcess(u, p)

SpecWorldBatches == InitWorldBatches /\ [][NextWorldBatches]_vars

\* ----------------------------------------------------- SpecHandlerCalls
\* A process that is no WorldProcess and completes at its first update.
NewShortProcess ==
    NewProcess("ManyPass", 1, 0, FALSE) @@ [event |-> "None", world |-> FALSE]

\* A world of all the units with a WorldProcessesActivator and a
\* UnitProcessesActivator; the first process is a world process, the second
\* a short process, the others are plain.
InitHandlerCalls ==
    /\ handlerFactories = <<"WorldProcessesActivator", "UnitProcessesActivator">>
    /\ handlers = UnitHandlers(handlerFactories)
    /\ inhabitants = Units
    /\ wlog = <<>>
    /\ werr = NoError
    /\ wop = "new"
    /\ \E e \in WorldProcessKinds, u \in Units :
          proc = [p \in Procs |->
                     IF p = P THEN NewWorldProcess(e, <<u>>)
                     ELSE IF p = P + 1 THEN NewShortProcess
                     ELSE NewUnitProcess]
    /\ keeper = [u \in Units |-> NewKeeper]
    /\ IdleActivator
    /\ IdleKeeperCalls
    /\ IdleInteraction
    /\ IdleProcess
    /\ IdleUnit

\* Handler i of the world called with a tuple of units it suits, while no
\* update has raised; kcalls counts the calls. A keeper's processes are
\* iterated in the order of their numbers.
CallHandler(i, units) ==
    /\ werr = NoError
    /\ kcalls < MaxCalls
    /\ \A k \in DOMAIN units : IsUnitSuitable(handlers[i], units[k])
    /\ \E porder \in {InTurn(HeldProcesses)} :
          \E r \in {HandlerCallInWorld(i, handlers[i], units,
                        NewWorld(inhabitants, keeper, proc, wkeeper),
                        porder)} :
              Leaves(r, "handler")
    /\ kcalls' = kcalls + 1
    /\ UNCHANGED <<passVars, unitVars, handlerFactories, handlers, kop, kerr,
                   procVars, interVars>>

\* The tuples the handlers are called with: no unit, or one or two of the
\* units that keep processes.
KeeperBatches ==
    {InTurn(S) : S \in {T \in SUBSET {u \in Units : IsProcessKeeper(u)} :
                           Cardinality(T) <= 2}}

NextHandlerCalls ==
    \/ \E i \in DOMAIN handlers, units \in KeeperBatches :
          CallHandler(i, units)
    \/ \E u \in Units, p \in Procs :
          /\ werr = NoError
          /\ p = P \/ \A q \in Procs \ (HeldProcesses \cup {P}) : p <= q
          /\ GiveProcess(u, p)

SpecHandlerCalls == InitHandlerCalls /\ [][NextHandlerCalls]_vars

\* ------------------------------------------------------- SpecWorldGiving
\* A world that activates world processes before the processes of the
\* units, all units inhabiting it; the first process gives the second, a
\* world process, to a unit, the others are plain.
GivingPipelines ==
    {<<"WorldProcessesActivator", "UnitProcessesActivator">>,
     <<"WorldProcessesActivator", "UnitUpdater", "UnitProcessesActivator">>}

InitWorldGiving ==
    /\ handlerFactories \in GivingPipelines
    /\ handlers = UnitHandlers(handlerFactories)
    /\ inhabitants = Units
    /\ wlog = <<>>
    /\ werr = NoError
    /\ wop = "new"
    /\ \E e \in WorldProcessKinds, u \in Units,
          v \in {x \in Units : IsProcessKeeper(x)} :
          proc = [p \in Procs |->
                     IF p = P THEN NewGivingProcess(v, P + 1)
                     ELSE IF p = P + 1 THEN NewWorldProcess(e, <<u>>)
                     ELSE NewUnitProcess]
    /\ keeper = [u \in Units |-> NewKeeper]
    /\ IdleActivator
    /\ IdleKeeperCalls
    /\ IdleInteraction
    /\ IdleProcess
    /\ IdleUnit

\* world.update(), while no update has raised and no process has been
\* updated MaxCalls times; the processes a keeper holds when its turn comes,
\* those given to it during the update among them, are iterated in some
\* order.
UpdateWorldGiving ==
    /\ werr = NoError
    /\ \A p \in Procs : proc[p].ups < MaxCalls
    /\ \E order \in Orders({u \in Units : IsProcessKeeper(u)}),
          porder \in Orders(Procs) :
          \E r \in {UpdateInWorldFrom(1, handlers,
                        NewWorld(inhabitants, keeper, proc, wkeeper),
                        order, porder)} :
              Leaves(r, "update")
    /\ UNCHANGED <<passVars, unitVars, handlerFactories, handlers, kop, kerr,
                   kcalls, procVars, interVars>>

\* The processes other than the world process are given to units from
\* outside; the world process only by the process that gives it.
NextWorldGiving ==
    \/ UpdateWorldGiving
    \/ \E u \in Units, p \in Procs \ {P + 1} :
          werr = NoError /\ GiveProcess(u, p)

SpecWorldGiving == InitWorldGiving /\ [][NextWorldGiving]_vars

\* ------------------------------------------------------- SpecInhabitants
\* A world under add_inhabitant, remove_inhabitant and spawn and kill
\* processes that name objects of any class.

\* World(inhabitants): __init__ adds each inhabitant by add_inhabitant, so a
\* world that was constructed has inhabitants that were accepted.
InitInhabitants ==
    /\ handlerFactories = <<>>
    /\ handlers = UnitHandlers(handlerFactories)
    /\ inhabitants \in SUBSET {o \in Objects : IsInhabitedFor(o)}
    /\ wlog = <<>>
    /\ werr = NoError
    /\ wop = "new"
    /\ interactive = {}
    /\ icalled = <<>>
    /\ warg = <<>>
    /\ turns = 0
    /\ threaded = NewSeparateThreadedLoop
    /\ IdleActivator
    /\ IdleKeepers
    /\ IdleInteraction
    /\ IdleProcess
    /\ IdleMover
    /\ IdleParts

\* world.add_inhabitant(o)
WorldAddInhabitant(o) ==
    /\ IF ~IsInhabitedFor(o)
       THEN /\ werr' = "NotSupportPartError"
            /\ inhabitants' = inhabitants
       ELSE /\ werr' = NoError
            /\ inhabitants' = inhabitants \cup {o}
    /\ wop' = "add_inhabitant"
    /\ warg' = <<o>>
    /\ wevents' = <<>>
    /\ UNCHANGED <<threaded, turns, interactive, icalled, wkeeper, unitVars, handlerFactories,
                   handlers, wlog, procVars, keeperVars, interVars>>

\* world.remove_inhabitant(o): set.remove
WorldRemoveInhabitant(o) ==
    /\ IF o \notin inhabitants
       THEN /\ werr' = "KeyError"
            /\ inhabitants' = inhabitants
       ELSE /\ werr' = NoError
            /\ inhabitants' = inhabitants \ {o}
    /\ wop' = "remove_inhabitant"
    /\ warg' = <<o>>
    /\ wevents' = <<>>
    /\ UNCHANGED <<threaded, turns, interactive, icalled, wkeeper, unitVars, handlerFactories,
                   handlers, wlog, procVars, keeperVars, interVars>>

\* The _handle of a UnitSpawnProcess or UnitKillProcess of this world whose
\* participants are one or two objects.
HandleEvent(e, ps) ==
    /\ \E r \in {HandleParticipants(
                     [NewWorldProcess(e, ps) EXCEPT !.world = TRUE], 1,
                     [inh |-> inhabitants, err |-> NoError, events |-> <<>>])} :
          /\ inhabitants' = r.inh
          /\ werr' = r.err
          /\ wevents' = r.events
    /\ wop' = e
    /\ warg' = ps
    /\ UNCHANGED <<threaded, turns, interactive, icalled, wkeeper, unitVars, handlerFactories,
                   handlers, wlog, procVars, keeperVars, interVars>>

NextInhabitants ==
    \/ \E o \in Objects : WorldAddInhabitant(o)
    \/ \E o \in Objects : WorldRemoveInhabitant(o)
    \/ \E e \in WorldProcessKinds :
       \E ps \in {<<a>> : a \in Objects} \cup {<<a, b>> : a, b \in Objects} :
          HandleEvent(e, ps)

SpecInhabitants == InitInhabitants /\ [][NextInhabitants]_vars

\* A world and one world process, P, that no keeper has been given.
InitWorldProcess ==
    /\ InitWorld(<<"WorldProcessesActivator">>)
    /\ ~IsWorldProcess(proc[P + 1])

NextWorldProcess ==
    \/ \E p \in Procs : AttachWorld(p)
    \/ \E p \in Procs : StartProcess(p)
    \/ \E p \in Procs : UpdateProcess(p)
    \/ \E p \in Procs : ActivatorAdd(p)

SpecWorldProcess == InitWorldProcess /\ [][NextWorldProcess]_vars

\* ------------------------------------------------- claims on one process
\* C3: a process put in a Sleep state with ticks_to_activate = n > 0 stays in
\* that state until n update() calls have been made on it, has left it once
\* n have been made, and none of those calls raises.
C3_SleepLastsExactlyN ==
    process.sn > 0 =>
        /\ (process.su < process.sn => process.st = "Sleep")
        /\ (process.su >= process.sn => process.st # "Sleep")
        /\ ~process.serr

\* C4: a DelayedProcess with _ticks_of_inactivity = n whose _handle() re-arms
\* the delay, updated from the unstarted state: no _handle() in updates 1..n,
\* exactly one by update n+1, and no further one in updates n+2..2n+1.
C4_DelayedFiresAfterNTicks ==
    (process.kind = "Delayed" /\ process.rearm /\ process.pure) =>
        /\ (process.ups \in 1..process.n => process.handled = 0)
        /\ (process.ups \in (process.n + 1)..(2 * process.n + 1)
                => process.handled = 1)

\* C5: a ManyPassProcess made with _passes = k >= 1 and updated from the
\* unstarted state is not Completed after fewer than k update() calls and is
\* Completed after the k-th.
C5_ManyPassCompletesAfterK ==
    (process.kind = "ManyPass" /\ process.pure) =>
        /\ (process.ups < process.k => process.st # "Completed")
        /\ (process.ups >= process.k => process.st = "Completed")

\* C5's case: a ManyPassProcess with the largest k has been updated k times.
C5_Witness ==
    /\ process.kind = "ManyPass"
    /\ process.pure
    /\ process.k = MaxPasses
    /\ process.ups = process.k
    /\ process.st = "Completed"

ActivateReturned ==
    /\ kcalls' = kcalls + 1
    /\ kop' = "activate_processes"
    /\ kerr' = NoError

C2_SurvivorUpdatedOnce ==
    [][ActivateReturned =>
        \A p \in keeper[K].processes :
            (proc[p].st # "Completed" /\ proc'[p].st # "Completed")
                => /\ p \in keeper'[K].processes
                   /\ proc'[p].ups = proc[p].ups + 1]_vars

\* C2's case: a call has returned with a process that it updated a second
\* time and did not complete.
C2_Witness ==
    /\ kop = "activate_processes"
    /\ kerr = NoError
    /\ \E p \in keeper[K].processes :
          /\ proc[p].st = "Active"
          /\ proc[p].ups = 2

\* ----------------------------------------------- claims on the interaction
\* The factories of _bilateral_process_factories whose process type reports
\* support for the pair (a, b).
SupportingFactories(a, b) ==
    {i \in DOMAIN factories : IsSupportParticipants(factories[i], a, b, mark)}

\* C9: is_support_interaction_with(other) is true if and only if at least one
\* configured bilateral-process factory reports support for (self, other); it
\* is false when factories are configured and none supports the pair.
C9_SupportIffSomeFactorySupports ==
    iop = "is_support_interaction_with"
        => (ires <=> SupportingFactories(iargs[1], iargs[2]) # {})

\* C10: interact_with(other) with N configured factories supporting
\* (self, other) adds exactly N new processes to self's keeper, each started
\* and with participants (self, other).
C10_InteractWithAddsOnePerSupportingFactory ==
    [][iop' = "interact_with"
          => LET a == iargs'[1]
                 b == iargs'[2]
                 new == keeper'[a].processes \ keeper[a].processes
             IN  /\ Cardinality(new) = Cardinality(SupportingFactories(a, b))
                 /\ \A p \in new : /\ proc'[p].st # "None"
                                   /\ proc'[p].parts = <<a, b>>]_vars

\* C11: with units A and B and one factory supporting (A, B), a second pass
\* of UnitRelationsActivator over them, B unchanged since the first, leaves
\* in A's keeper exactly one process with participants (A, B).
C11_SecondPassAddsNoDuplicate ==
    [][(/\ iop = "activate_relations"
        /\ iop' = "activate_relations"
        /\ ibatch' = ibatch
        /\ Cardinality(ibatch) = 2)
          => \A a \in ibatch \cap InteractiveUnits : \A b \in ibatch \ {a} :
                Cardinality(SupportingFactories(a, b)) = 1
                    => Cardinality({p \in keeper'[a].processes :
                                       proc'[p].parts = <<a, b>>}) = 1]_vars

\* What evaluating is_support_participants((a, b)) of every configured
\* factory returns now.
FreshlyFound(a, b) ==
    [i \in DOMAIN factories |-> IsSupportParticipants(factories[i], a, b, mark)]

\* C12: a lookup of unit U for partner X when U's last lookup was for the
\* same X (X is the cached object) returns the result of that lookup, calls
\* no is_support_participants and leaves the cache as it is; a lookup of U
\* for a partner other than the cached one tests every configured factory
\* and replaces the cache entry by the partner and the result.
C12_CacheReusedForSamePartnerOnly ==
    [][iop' = "is_support_interaction_with"
          => LET a == iargs'[1]
                 b == iargs'[2]
             IN  /\ cache[a].object_ = b
                        => /\ itested' = 0
                           /\ ilooked'[1].found = cache[a].factories
                           /\ (iop = "is_support_interaction_with"
                                   /\ iargs = iargs') => ires' = ires
                           /\ cache' = cache
                 /\ cache[a].object_ # b
                        => /\ itested' = Len(factories)
                           /\ ilooked'[1].found = FreshlyFound(a, b)
                           /\ cache'[a] = [object_ |-> b,
                                           factories |-> FreshlyFound(a, b)]]_vars

\* A lookup that used the cached tuple, of a unit with factories configured.
C12_Witness ==
    /\ iop = "is_support_interaction_with"
    /\ factories # <<>>
    /\ itested = 0
    /\ cache[iargs[1]].object_ = iargs[2]

\* C13: under the access pattern of the pipeline every lookup a pass makes
\* returns what evaluating every factory's support for (self, partner) at
\* that moment returns, also when the partner's state changed between passes.
C13_CachedLookupEqualsFreshEvaluation ==
    iop = "activate_relations"
        => \A i \in DOMAIN ilooked :
               ilooked[i].found = FreshlyFound(ilooked[i].unit, ilooked[i].partner)

\* --------------------------------------------------- claims on the motion
\* A vector no longer than the limit, or else reduced to the limit.
Limited(v, limit) ==
    IF Length(v) <= limit THEN v ELSE GetReducedToLength(v, limit)

\* C14: in every state of the unit, before any move and after moves, the
\* limited next_unit_position lies from the unit's position by the wrapped
\* process's displacement if that is no longer than speed_limit, and else by
\* speed_limit in the direction of that displacement.
C14_LimitedDisplacementIsRawOrLimit ==
    mover.wrapped
        => SpeedLimitedNextUnitPosition(mover) - mover.position
               = Limited(DirectedNextUnitPosition(mover) - mover.position,
                         mover.limit)

\* C15: after an impulse v the first move moves the unit by v (limited if
\* the process is wrapped by a limiter); at the following move, the moving
\* process updated in between and no new impulse set, the vector is zero and
\* the position stays.
C15_ImpulseMovesUnitOnce ==
    mop = "move"
        => /\ mover.moved = 1
                 => mover.position - mover.previous
                        = IF mover.wrapped
                          THEN Limited(mover.impulse, mover.limit)
                          ELSE mover.impulse
           /\ (mover.moved >= 2 /\ mover.ticked)
                 => /\ mover.vector = 0
                    /\ mover.position = mover.previous

\* ---------------------------------------------------- claims on the parts
\* The units reachable from the units of S through parts, S included.
RECURSIVE ReachableFrom(_)
ReachableFrom(S) ==
    LET next == S \cup UNION {graph[u] : u \in S}
    IN  IF next = S THEN S ELSE ReachableFrom(next)

\* The parts of u and their parts and so on.
ReachableParts(u) ==
    IF graph[u] = {} THEN {} ELSE ReachableFrom(graph[u])

\* No unit reachable from u, nor u, is among its own reachable parts.
IsAcyclicFrom(u) ==
    \A v \in ReachableParts(u) \cup {u} : v \notin ReachableParts(v)

\* C16: for a unit with an acyclic part graph deep_parts returns exactly the
\* parts reachable from it through parts, never the unit itself.
C16_DeepPartsAreTheReachableParts ==
    (dop = "deep_parts" /\ IsAcyclicFrom(darg))
        => /\ dres.err = NoError
           /\ dres.parts = ReachableParts(darg)
           /\ darg \notin dres.parts

\* C17: deep_parts of a unit whose part graph has a cycle fails with
\* CyclicPartGraphError.
C17_DeepPartsOfCycleFailsWithCycleError ==
    (dop = "deep_parts" /\ ~IsAcyclicFrom(darg))
        => dres.err = "CyclicPartGraphError"

\* ---------------------------------------------------- claims on the world
\* C7: World.update() calls each unit handler exactly once, in the order the
\* factories were supplied at construction, and calls a handler only after
\* the one before it has returned; an update that raises ends at the handler
\* that raised.
C7_HandlersRunOnceInDeclaredOrder ==
    wop = "update" =>
        /\ Len(wlog) <= Len(handlerFactories)
        /\ \A i \in DOMAIN wlog :
              /\ wlog[i].handler = i
              /\ wlog[i].kind = handlerFactories[i]
              /\ i < Len(wlog) => wlog[i].returned
        /\ werr = NoError =>
              /\ Len(wlog) = Len(handlerFactories)
              /\ \A i \in DOMAIN wlog : wlog[i].returned

\* An update that returned after calling handlers of different kinds.
C7_Witness ==
    /\ wop = "update"
    /\ werr = NoError
    /\ Len(wlog) >= 2
    /\ \E i, j \in DOMAIN wlog : wlog[i].kind # wlog[j].kind

\* C8: every unit of the collection a handler is called with satisfies the
\* handler's is_unit_suitable and was in the world's deep_parts when the
\* handler was called.
C8_HandlerReceivesOnlySuitableUnits ==
    \A i \in DOMAIN wlog :
        \A u \in wlog[i].units :
            /\ IsUnitSuitable(wlog[i].kind, u)
            /\ u \in wlog[i].deep

\* A handler called with some units of a world that has a unit unsuitable
\* for it, while a unit suitable for it is outside the world.
C8_Witness ==
    \E i \in DOMAIN wlog :
        /\ wlog[i].units # {}
        /\ \E u \in wlog[i].deep : ~IsUnitSuitable(wlog[i].kind, u)
        /\ \E u \in Units \ wlog[i].deep : IsUnitSuitable(wlog[i].kind, u)

\* ------------------------------------------------ claims on world processes
\* The events of the call logged as e, by position.
EventsOf(e) == e.first..e.last

\* C18: after WorldProcessesActivator has handled a batch of units, every
\* WorldProcess that was in the keeper of a unit of the batch when the
\* handler started is no longer among that unit's processes, has the
\* handler's world as its world and was added to the handler's own keeper
\* (where it still is when the call returned); and every process was taken
\* from its unit before any process of the handler's keeper was updated in
\* that pass.
C18_WorldProcessesAreTakenBeforeActivation ==
    \A k \in DOMAIN wlog :
        LET e == wlog[k]
        IN  (/\ e.kind = "WorldProcessesActivator"
             /\ \A u \in e.units : IsUnitSuitable(e.kind, u))
            => /\ \A h \in e.held :
                     /\ h \notin e.left
                     /\ h[2] \in e.attached
                     /\ \E j \in EventsOf(e) :
                           /\ wevents[j].op = "add_process"
                           /\ wevents[j].proc = h[2]
                     /\ e.returned => h[2] \in e.kept
               /\ \A i, j \in EventsOf(e) :
                     (/\ wevents[i].op = "update"
                      /\ wevents[j].op \in {"remove_process", "add_process"})
                     => j < i

\* A call of the handler that returned after taking two world processes
\* from the keepers of two units and updating both.
C18_Witness ==
    \E k \in DOMAIN wlog :
        LET e == wlog[k]
        IN  /\ e.kind = "WorldProcessesActivator"
            /\ e.returned
            /\ \E g, h \in e.held : g[1] # h[1] /\ g[2] # h[2]
            /\ \A h \in e.held :
                  \E i \in EventsOf(e) :
                      wevents[i].op = "update" /\ wevents[i].proc = h[2]

\* The number of times an event was made in a call with these events.
Made(events, op, u) ==
    Cardinality({i \in DOMAIN events :
                    events[i].op = op /\ events[i].unit = u})

\* The number of times u is a participant of q.
Named(q, u) ==
    Cardinality({i \in DOMAIN q.parts : q.parts[i] = u})

\* P, not yet started, is the one world process a keeper holds; an
\* inhabitant unit holds it; and if it is a UnitKillProcess each participant
\* is an inhabitant and named once.
FreshInWorld ==
    /\ proc[P].st = "None"
    /\ \E u \in inhabitants : P \in keeper[u].processes
    /\ \A p \in HeldProcesses \ {P} : ~IsWorldProcess(proc[p])
    /\ proc[P].event = "UnitKill" =>
          \A i \in DOMAIN proc[P].parts :
              /\ proc[P].parts[i] \in inhabitants
              /\ Named(proc[P], proc[P].parts[i]) = 1

\* C19: a UnitSpawnProcess (UnitKillProcess) was added to the keeper of a
\* unit of a world whose pipeline contains WorldProcessesActivator: after
\* the next World.update() every participant is (is not) an inhabitant, the
\* world's add_inhabitant (remove_inhabitant) was called for a participant as
\* many times as it is named, once, and the process's state is Completed;
\* and a process whose state is Completed is not handled again.
C19_SpawnAndKillTakeEffectOnNextTick ==
    [][/\ (wop' = "update" /\ FreshInWorld) =>
             LET q == proc'[P]
                 made == IF q.event = "UnitSpawn" THEN "add_inhabitant"
                         ELSE "remove_inhabitant"
             IN  /\ q.st = "Completed"
                 /\ \A i \in DOMAIN q.parts :
                       /\ (q.event = "UnitSpawn") = (q.parts[i] \in inhabitants')
                       /\ Made(wevents', made, q.parts[i]) = Named(q, q.parts[i])
       /\ proc[P].st = "Completed" => proc'[P].handled = proc[P].handled
      ]_vars

\* C20: start(), and update() with it, on a WorldProcess that has no world
\* raises an error, handles no participant and leaves the process without a
\* state; start() on a WorldProcess that has a world makes its state Active.
C20_StartWithoutWorldFails ==
    [][/\ (wop' \in {"start", "process_update"} /\ ~proc[P].world) =>
             /\ werr' # NoError
             /\ proc'[P].st = "None"
             /\ proc'[P].handled = proc[P].handled
             /\ inhabitants' = inhabitants
             /\ wevents' \in {<<>>, <<[op |-> "update", unit |-> 0,
                                      proc |-> P]>>}
       /\ (wop' = "start" /\ proc[P].world) =>
             /\ werr' = NoError
             /\ proc'[P].st = "Active"
      ]_vars

\* update() has just raised on a world process that has no world.
C20_Witness ==
    /\ wop = "process_update"
    /\ ~proc[P].world
    /\ werr = "WorldProcessError"

\* ------------------------------------------------------------------ C21
\* C21: add_process(p) on the WorldProcessesActivator fails with
\* UnsupportedProcessError whenever p is not a WorldProcess, and the failed
\* add leaves the handler's processes, its completed processes and the
\* rejected process unchanged; a supported p is in processes afterwards.
C21_RejectedAddChangesNothing ==
    [][wop' = "activator_add_process" =>
          \A p \in Procs :
             wevents' = <<[op |-> "add_process", unit |-> 0, proc |-> p]>> =>
                IF ActivatorIsSupportProcess(proc[p])
                THEN /\ werr' = NoError
                     /\ p \in wkeeper'.processes
                ELSE /\ werr' = "UnsupportedProcessError"
                     /\ wkeeper' = wkeeper
                     /\ proc'[p] = proc[p]
      ]_vars

\* ------------------------------------------------------------------ C22
\* The processes the last call, an activate_processes(), added.
AddedInCall ==
    IF kop = "activate_processes"
    THEN {wevents[i].proc : i \in DOMAIN wevents}
    ELSE {}

\* C22: a process that was not in the keeper's processes before an
\* activate_processes() call and that a process's update adds to the keeper
\* during the call is in processes after the call and is not updated during
\* it; the following activate_processes() call updates it, for the first
\* time since it was added.
C22_AddedDuringCallWaitsForNextCall ==
    [][\A q \in Procs :
          /\ (/\ kop' = "activate_processes"
              /\ q \notin keeper[K].processes
              /\ \E i \in DOMAIN wevents' : wevents'[i].proc = q) =>
                 /\ q \in keeper'[K].processes
                 /\ proc'[q] = proc[q]
          /\ (/\ kop' = "activate_processes"
              /\ q \in AddedInCall
              /\ proc[q].st # "Completed"
              /\ kerr' = NoError) =>
                 /\ proc'[q].ups = proc[q].ups + 1
      ]_vars

\* An activation has just added a process that was not in the keeper and
\* whose state is not Completed.
C22_Witness ==
    /\ kop = "activate_processes"
    /\ kerr = NoError
    /\ \E q \in AddedInCall :
          /\ proc[q].ups = 0
          /\ proc[q].st = "None"
          /\ q \in keeper[K].processes
          /\ Cardinality(keeper[K].processes) > 1

\* ------------------------------------------------------------------ C23
\* The units whose keepers the UnitProcessesActivator has activated in the
\* update that a step makes, given the log the update leaves.
ActivatedIn(log) ==
    UNION {log[i].units : i \in {j \in DOMAIN log :
                                   /\ log[j].kind = "UnitProcessesActivator"
                                   /\ log[j].returned}}

\* The processes of keeper u whose state a step makes Completed.
CompletedByStep(u) ==
    {p \in keeper[u].processes :
        proc[p].st # "Completed" /\ proc'[p].st = "Completed"}

C25_PassCallsEachOrderedPairOnce ==
    iop = "pass" =>
        /\ \A i \in DOMAIN icalled :
              /\ icalled[i][1] \in ibatch \cap interactive
              /\ icalled[i][2] \in ibatch \ {icalled[i][1]}
        /\ \A i, j \in DOMAIN icalled : icalled[i] = icalled[j] => i = j
        /\ ierr = NoError =>
               \A a \in ibatch \cap interactive : \A b \in ibatch \ {a} :
                  \E i \in DOMAIN icalled : icalled[i] = <<a, b>>

\* A pass has returned over a batch of two InteractiveUnits and a unit that is
\* none.
C25_Witness ==
    /\ iop = "pass"
    /\ ierr = NoError
    /\ Cardinality(ibatch \cap interactive) = 2
    /\ Cardinality(ibatch \ interactive) = 1
    /\ Len(icalled) = 4

\* ------------------------------------------------------------------ C24
\* C24: a handler called with a collection in which some unit is not
\* suitable for it raises UnsupportedUnitForHandlerError and has handled no
\* unit: no keeper is cleared or activated, no process is taken, attached
\* or updated, and the inhabitants are as before.
C24_UnsuitableUnitFailsBeforeHandling ==
    [][(/\ wop' = "handler"
        /\ \E u \in wlog'[1].units : ~IsUnitSuitable(wlog'[1].kind, u)) =>
           /\ werr' = "UnsupportedUnitForHandlerError"
           /\ ~wlog'[1].returned
           /\ wevents' = <<>>
           /\ keeper' = keeper
           /\ wkeeper' = wkeeper
           /\ proc' = proc
           /\ inhabitants' = inhabitants
      ]_vars

\* The handler has just refused a batch of a unit that holds a world process
\* and a unit that is not suitable, while its own keeper held a process.
C24_Witness ==
    /\ wop = "handler"
    /\ werr = "UnsupportedUnitForHandlerError"
    /\ Cardinality(wlog[1].units) = 2
    /\ wlog[1].held # {}
    /\ wkeeper.processes # {}

\* ------------------------------------------------------------------ C26
\* The update of process p that a step makes has raised: the update was
\* counted and _handle was not completed.
Failed(p) ==
    /\ proc'[p].ups = proc[p].ups + 1
    /\ proc'[p].handled = proc[p].handled

\* The positions of the process updates among the events.
Updates(events) == {i \in DOMAIN events : events[i].op = "update"}

\* C26: when a process that a handler drives raises during World.update(),
\* the update raises that error; the handlers after the failing one are not
\* called, nothing is updated after the update that raised, and what the
\* tick did before is kept: the processes updated before stay handled, the
\* inhabitants added and removed stay so, the processes taken from the
\* units stay taken and attached to the world.
C26_ErrorEndsTheTickWithoutRollback ==
    [][(wop' = "update" /\ werr' # NoError) =>
          LET n == Len(wlog')
              ups == Updates(wevents')
              last == CHOOSE i \in ups : \A j \in ups : j <= i
          IN  /\ n \in 1..Len(handlers)
              /\ \A i \in 1..n : /\ wlog'[i].handler = i
                                 /\ wlog'[i].returned = (i < n)
              /\ ups # {}
              /\ Failed(wevents'[last].proc)
              /\ \A i \in ups \ {last} :
                    proc'[wevents'[i].proc].handled
                        = proc[wevents'[i].proc].handled + 1
              /\ \A i \in DOMAIN wevents' :
                    /\ (/\ wevents'[i].op = "add_inhabitant"
                        /\ \A j \in DOMAIN wevents' :
                              (j > i /\ wevents'[j].unit = wevents'[i].unit)
                                  => wevents'[j].op # "remove_inhabitant")
                          => wevents'[i].unit \in inhabitants'
                    /\ (/\ wevents'[i].op = "remove_inhabitant"
                        /\ \A j \in DOMAIN wevents' :
                              (j > i /\ wevents'[j].unit = wevents'[i].unit)
                                  => wevents'[j].op # "add_inhabitant")
                          => wevents'[i].unit \notin inhabitants'
                    /\ wevents'[i].op = "remove_process"
                          => wevents'[i].proc
                                 \notin keeper'[wevents'[i].unit].processes
                    /\ wevents'[i].op = "add_process"
                          => proc'[wevents'[i].proc].world
      ]_vars

\* A tick has raised in its first handler of two, after it had updated a
\* process that removed an inhabitant.
C26_Witness ==
    /\ wop = "update"
    /\ werr # NoError
    /\ Len(wlog) = 1
    /\ Len(handlers) = 2
    /\ Cardinality(Updates(wevents)) = 2
    /\ \E i \in DOMAIN wevents : wevents[i].op = "remove_inhabitant"

\* ------------------------------------------------------------------ C27
\* C27: after any add_inhabitant and remove_inhabitant calls and spawn and
\* kill processes, every inhabitant of the world is an IUpdatable that is no
\* World; add_inhabitant of a World or of an object that is no IUpdatable
\* raises NotSupportPartError and leaves the inhabitants as they were.
C27_InhabitantsAreUpdatableAndNoWorlds ==
    [][/\ \A o \in inhabitants \cup inhabitants' :
             IsUpdatable(o) /\ ~IsWorld(o)
       /\ (/\ wop' = "add_inhabitant"
           /\ (IsWorld(warg'[1]) \/ ~IsUpdatable(warg'[1]))) =>
              /\ werr' = "NotSupportPartError"
              /\ inhabitants' = inhabitants
      ]_vars

\* add_inhabitant has just refused a World while the world had two
\* inhabitants or more.
C27_Witness ==
    /\ wop = "add_inhabitant"
    /\ werr = "NotSupportPartError"
    /\ IsWorld(warg[1])
    /\ Cardinality(inhabitants) >= 2

\* ------------------------------------------------------------------ C28
\* The process as update() finds it once it has a state: a process with no
\* state is started first.
Started(p) == IF p.st = "None" THEN Start(p) ELSE p

\* C28: an update() call runs the process's _handle() exactly once when the
\* state that the call updates is an Active or a Flag state and not at all
\* when it is a Sleep state, whatever state the process goes over to at the
\* end of the call.
C28_HandleRunsOncePerCompellingUpdate ==
    [][(pop' = "update" /\ process'.ups = process.ups + 1) =>
          /\ Started(process).st \in {"Active", "Flag"}
                => process'.handled = process.handled + 1
          /\ Started(process).st = "Sleep"
                => process'.handled = process.handled
          /\ process'.handled \in {process.handled, process.handled + 1}
      ]_vars

\* An update has gone from a Sleep state over to the Active state.
C28_Witness ==
    /\ pop = "update"
    /\ perr = NoError
    /\ process.sn > 1
    /\ process.su = 1
    /\ process.st = "Active"
    /\ process.handled = 0

\* ------------------------------------------------------------------ C29
\* C29: in the update() call in which the countdown of a process's Sleep
\* state reaches zero, the process goes over to the Active state and its
\* _handle() runs within that call.
C29_HandledInTheUpdateThatEndsSleep ==
    [][(/\ pop' = "update"
        /\ process'.ups = process.ups + 1
        /\ Started(process).st = "Sleep"
        /\ Started(process).ticks = 1) =>
           /\ perr' = NoError
           /\ process'.st = "Active"
           /\ process'.handled = process.handled + 1
      ]_vars

\* ------------------------------------------------------------------ C30
\* C30: a process whose state is a Flag state that is not standing is in the
\* Active state after its next update(), and the Flag state of a class
\* created with is_standing = True is valid.
C30_FlagRevertsUnlessStanding ==
    [][/\ (/\ pop' = "update"
           /\ process'.ups = process.ups + 1
           /\ process.st = "Flag"
           /\ ~process.declared) => process'.st = "Active"
       /\ (process'.st = "Flag" /\ process'.declared) => IsValid(process')
      ]_vars

\* ------------------------------------------------------------------ C31
\* C31: right after move() on a ProcessMovableUnit the call has returned and
\* the state of its moving process, which a proxy reads from and writes to
\* the process it wraps, is the moving Flag state (UnitMovingProcessState).
C31_MoveLeavesMovingFlag ==
    mop = "move"
        => /\ merr = NoError
           /\ mover.process.st = "Flag"

\* ------------------------------------------------------------------ C32
\* C32: a proxy forwards every operation to the process it wraps: update()
\* on the proxy of the unit's moving process performs the update of the
\* wrapped process (its state is updated and its _handle() runs), and raises
\* what that update raises.
C32_ProxyUpdateUpdatesTheWrapped ==
    [][(mop' = "update" /\ mover.wrapped)
          => /\ mover'.process = ProcessUpdate(mover.process).p
             /\ merr' = ProcessUpdate(mover.process).err]_vars

\* ------------------------------------------------------------------ C33
\* C33: the loop that ends Process.update() terminates: whenever an update()
\* of a plain, many-pass or delayed process has entered the loop, in
\* whatever state (Active, Sleep with any counter, Flag, Completed made by
\* _get_next_state), the call returns.
C33_ResetLoopTerminates ==
    (pop = "loop") ~> (pop = "update")

\* The loop was left after _get_next_state returned a second, fresh Completed
\* state.
C33_Witness ==
    /\ pop = "update"
    /\ perr = NoError
    /\ process.kind = "ManyPass"
    /\ process.st = "Completed"
    /\ turns = 2

\* ------------------------------------------------------------------ C34
\* C34: Completed is absorbing: once the state of a process is Completed, no
\* update() of it and no activate_processes() of its keeper gives it another
\* state or runs its _handle() again.
C34_CompletedIsAbsorbing ==
    [][\A p \in Procs :
          proc[p].st = "Completed"
              => /\ proc'[p].st = "Completed"
                 /\ proc'[p].handled = proc[p].handled]_vars

\* A process that had completed and was still kept has been updated
\* directly, and its keeper had been activated before.
C34_Witness ==
    /\ kop = "update"
    /\ kerr = "ProcessAlreadyCompletedError"
    /\ \E p \in keeper[K].processes :
          /\ proc[p].st = "Completed"
          /\ proc[p].ups > proc[p].k
    /\ keeper[K].completed # <<>>

\* ------------------------------------------------------------------ C35
\* The processes that the call a step makes has put on the completed list.
ArchivedByStep ==
    {keeper'[K].completed[i] :
        i \in (Len(keeper[K].completed) + 1)..Len(keeper'[K].completed)}

\* C35: activate_processes() never updates a process whose state is
\* Completed when the loop reaches it, also when another process of the same
\* call completed it before: the call never raises
\* ProcessAlreadyCompletedError, the processes it archives are in the
\* Completed state and were not updated by it, and a process it has not
\* archived it has updated, unless an update raised.
C35_KeeperNeverUpdatesCompleted ==
    [][kop' = "activate_processes" =>
          /\ kerr' # "ProcessAlreadyCompletedError"
          /\ \A q \in ArchivedByStep :
                /\ q \in keeper[K].processes
                /\ proc'[q].st = "Completed"
                /\ proc'[q].ups = proc[q].ups
          /\ kerr' = NoError =>
                \A q \in keeper[K].processes \ ArchivedByStep :
                    /\ proc'[q].ups = proc[q].ups + 1
                    /\ q \in keeper'[K].processes
      ]_vars

\* The first activation has archived a process that another process of the
\* same call had completed, and has updated that other process.
C35_Witness ==
    /\ kop = "activate_processes"
    /\ kerr = NoError
    /\ kcalls = 1
    /\ \E q \in Range(keeper[K].completed) :
          /\ proc[q].kind = "Plain"
          /\ proc[q].st = "Completed"
          /\ proc[q].ups = 0
    /\ \E a \in keeper[K].processes : proc[a].handled = 1

\* ------------------------------------------------------------------ C36
\* The processes that are in a keeper's processes and in its
\* completed_processes at once.
InBoth(k) == k.processes \cap Range(k.completed)

\* Each process kept before the step is kept or archived after it, not both.
EachInExactlyOne ==
    \A p \in keeper[K].processes :
        (p \in keeper'[K].processes) # (p \in Range(keeper'[K].completed))

\* C36 as stated: after every add_process, activate_processes and
\* clear_completed_processes call, no update having raised and no process
\* having been removed, processes and completed_processes are disjoint, and
\* after each activate_processes call every process kept before it is in
\* exactly one of the two.
C36_ProcessesAndCompletedAlwaysDisjoint ==
    [][/\ InBoth(keeper'[K]) = {}
       /\ kop' = "activate_processes" => EachInExactlyOne]_vars

\* C36 amended: after each activate_processes call the two are disjoint and
\* every process kept before the call is in exactly one of them; after
\* clear_completed_processes they are disjoint; add_process of a process
\* that is on the completed list puts it in both, and no other process.
C36_ActivationSeparatesKeptFromCompleted ==
    [][/\ kop' = "activate_processes"
            => /\ InBoth(keeper'[K]) = {}
               /\ EachInExactlyOne
       /\ kop' = "clear_completed_processes" => InBoth(keeper'[K]) = {}
       /\ kop' = "add_process"
            => InBoth(keeper'[K])
                   = InBoth(keeper[K])
                     \cup ((keeper'[K].processes \ keeper[K].processes)
                           \cap Range(keeper[K].completed))]_vars

\* An activation has archived a process for the second time, the process
\* having been added again while on the completed list, and has kept
\* another.
C36_Witness ==
    /\ kop = "activate_processes"
    /\ kerr = NoError
    /\ keeper[K].processes # {}
    /\ \E i, j \in DOMAIN keeper[K].completed :
          /\ i < j
          /\ keeper[K].completed[i] = keeper[K].completed[j]

\* ------------------------------------------------------------------ C37
\* The inhabitants after the first n of the events of an update that began
\* with the inhabitants inh.
RECURSIVE InhabitantsAfter(_, _, _)
InhabitantsAfter(inh, events, n) ==
    IF n = 0
    THEN inh
    ELSE LET before == InhabitantsAfter(inh, events, n - 1)
         IN  CASE events[n].op = "add_inhabitant" ->
                      before \cup {events[n].unit}
               [] events[n].op = "remove_inhabitant" ->
                      before \ {events[n].unit}
               [] OTHER -> before

\* The units that the handler calls before call i of an update have added
\* to the world, and those they have removed from it.
AddedBefore(log, events, i) ==
    {events[k].unit : k \in {j \in 1..(log[i].first - 1) :
                                events[j].op = "add_inhabitant"}}

RemovedBefore(log, events, i) ==
    {events[k].unit : k \in {j \in 1..(log[i].first - 1) :
                                events[j].op = "remove_inhabitant"}}

\* C37: the batch of every handler call of an update is the suitable units
\* of the world's deep_parts as they are when that handler is called: a
\* unit added by an earlier handler of the update is in the batch of every
\* later handler it suits, a unit removed by an earlier handler is in no
\* later handler's batch.
C37_BatchIsComputedWhenHandlerIsInvoked ==
    [][wop' = "update" =>
          \A i \in DOMAIN wlog' :
             /\ wlog'[i].units
                   = SuitableUnits(wlog'[i].kind,
                        DeepParts(InhabitantsAfter(inhabitants, wevents',
                                                   wlog'[i].first - 1)))
             /\ \A u \in AddedBefore(wlog', wevents', i) :
                   IsUnitSuitable(wlog'[i].kind, u) => u \in wlog'[i].units
             /\ \A u \in RemovedBefore(wlog', wevents', i) :
                   u \notin wlog'[i].units
      ]_vars

\* An update has returned in which the WorldProcessesActivator added a unit
\* that a later handler then was given, and which the handlers before had
\* not been given.
C37_Witness ==
    /\ wop = "update"
    /\ werr = NoError
    /\ \E i \in DOMAIN wlog, u \in Units :
          /\ u \in AddedBefore(wlog, wevents, i)
          /\ u \in wlog[i].units
          /\ IsProcessKeeper(u)
          /\ \A j \in 1..(i - 1) : u \notin wlog[j].units

\* ------------------------------------------------------------------ C38
\* The world processes that the events of the last call say were updated.
UpdatedWorldProcesses ==
    {wevents[i].proc : i \in {j \in DOMAIN wevents :
                                 /\ wevents[j].op = "update"
                                 /\ IsWorldProcess(proc[wevents[j].proc])}}

\* C38: in a world that calls WorldProcessesActivator before
\* UnitProcessesActivator no world process is started or updated without a
\* world, also when a process gives a world process to another unit's keeper
\* while UnitProcessesActivator goes through the units: no update of the
\* world raises WorldProcessError and every world process updated has its
\* world.
C38_WorldProcessNeverRunsWithoutWorld ==
    wop = "update"
        => /\ werr # "WorldProcessError"
           /\ \A p \in UpdatedWorldProcesses : proc[p].world

\* ------------------------------------------------------------------ C39
\* C39: a pass of the WorldProcessesActivator leaves alone everything but
\* world processes: every process of a unit's keeper that is no WorldProcess
\* stays among that unit's processes, is not updated and keeps its state,
\* and the completed list of every unit is as it was.
C39_ActivatorPassLeavesOtherProcessesAlone ==
    [][(/\ wop' = "handler"
        /\ wlog'[1].kind = "WorldProcessesActivator") =>
           \A u \in Units :
              /\ keeper'[u].completed = keeper[u].completed
              /\ \A p \in keeper[u].processes :
                    ~IsWorldProcess(proc[p])
                        => /\ p \in keeper'[u].processes
                           /\ proc'[p] = proc[p]
                           /\ p \notin wkeeper'.processes
      ]_vars

\* A pass of the WorldProcessesActivator has returned that took a world
\* process from a unit which holds another process, already updated, and
\* whose completed list is not empty.
C39_Witness ==
    /\ wop = "handler"
    /\ werr = NoError
    /\ wlog[1].kind = "WorldProcessesActivator"
    /\ \E h \in wlog[1].held :
          /\ keeper[h[1]].completed # <<>>
          /\ \E p \in keeper[h[1]].processes : proc[p].ups > 0

\* C40: for a SeparateThreadedLoop, finish() called after run() always
\* terminates the background loop: under every interleaving of the caller
\* with the loop's thread, once finish() has set _is_working to False the
\* while loop of Loop.run is eventually left and thread.join() returns.
C40_FinishTerminatesTheLoop ==
    (threaded.caller = "join")
        ~> (threaded.thread = "ended" /\ threaded.caller = "finished")

====
